---- MODULE Spec2Model ----
(***************************************************************************)
(* The saved-query store of the API gateway (CachedQueriesDB over the      *)
(* saved_queries table) driven by concurrent callers.                      *)
(*                                                                         *)
(* Every CachedQueriesDB method runs inside one get_session() block, i.e.  *)
(* one PostgreSQL transaction (READ COMMITTED) that is committed when the  *)
(* block is left.  A write statement takes the row lock (or the unique     *)
(* index entry) and keeps it until the commit that directly follows it, so *)
(* a write statement together with its commit is one step here.  The only  *)
(* point inside a method where other transactions can run and be seen is   *)
(* between two statements of the same method: in save_query, between the   *)
(* SELECT (.first()) and the UPDATE/INSERT emitted by flush().             *)
(*                                                                         *)
(* Text values are sequences of one-character strings.                     *)
(***************************************************************************)
EXTENDS Integers, Sequences, FiniteSets, TLC

VARIABLES
    saved_queries,  \* the committed rows of table saved_queries
    id_seq,         \* next value of the serial sequence behind SavedQuery.id
    clock,          \* int(time.time())
    pc,             \* per caller: "idle", or "save_selected" inside save_query
    args,           \* per caller: the arguments of the save_query in progress
    loaded,         \* per caller: the row the session holds (existing_query)
    current_timestamp, \* per caller: save_query's local of that name
    last,           \* the call that finished last: method, arguments, outcome,
                    \* and the statements a search ran, in order
    calls,          \* history: number of calls started so far
    applied,        \* history: per id, committed statements that counted a use
    sessions,       \* per caller: sessions it has opened and not closed
    endpoints,      \* the rows of table endpoints (the catalog)
    request_bodies, \* the rows of table request_bodies
    response_bodies, \* the rows of table response_bodies
    known_segments_cache,  \* APIDatabase._known_segments_cache
    has_cache,      \* hasattr(self, '_known_segments_cache')
    current_query_from_cached_queries,  \* the server's global of that name
    proxied         \* history: the calls of execute_api_call, in order of start

vars == <<saved_queries, id_seq, clock, pc, args, loaded, current_timestamp,
          last, calls, applied, sessions, endpoints, request_bodies,
          response_bodies, known_segments_cache, has_cache,
          current_query_from_cached_queries, proxied>>

\* what the saved-query store never touches
body_vars == <<request_bodies, response_bodies>>
catalog_vars == <<endpoints, body_vars, known_segments_cache, has_cache>>

\* what only the server's tools touch
server_vars == <<current_query_from_cached_queries, proxied>>

(* ------------------------------ bounds --------------------------------- *)
NumProcs == 2
MaxCalls == 2
MaxClock == 1

Procs == 1..NumProcs
Ids == 1..(MaxCalls + 1)

Paths == { <<"/", "a">>, <<"/", "B">> }
Methods == { "GET" }
Terms == { <<>>, <<"b">>, <<"_">> }

\* description, params, data of a call
Payloads ==
    { [description |-> <<"a">>, params |-> "null", data |-> "{d}"],
      [description |-> <<"B", "_">>, params |-> "{q}", data |-> "null"] }

(* ------------------------------ values --------------------------------- *)
NoArgs ==
    [description |-> <<>>, path |-> <<>>, method |-> "", params |-> "null",
     data |-> "null", query_id |-> 0, search_term |-> <<>>, limit |-> 0]

\* Python values a method returns, in one shape.
RetNone == [kind |-> "None", n |-> 0, rows |-> <<>>]
RetInt(i) == [kind |-> "int", n |-> i, rows |-> <<>>]
RetDict(r) == [kind |-> "dict", n |-> 0, rows |-> <<r>>]
RetList(s) == [kind |-> "list", n |-> 0, rows |-> s]

\* Python truth value of a returned value (`if success:`, `if query:`).
Truthy(v) ==
    CASE v.kind = "None" -> FALSE
      [] v.kind = "int" -> v.n # 0
      [] OTHER -> Len(v.rows) > 0

(* ------------------------------ schema --------------------------------- *)
\* SavedQuery(...) as save_query builds it.
SavedQuery(id, description, path, method, params, data, timestamp, usage_count) ==
    [id |-> id, description |-> description, path |-> path, method |-> method,
     params |-> params, data |-> data, timestamp |-> timestamp,
     usage_count |-> usage_count]

\* an index on (path, method) that is not unique refuses nothing
IndexNotUnique(path, method) == FALSE

\* idx_saved_queries_path_method (unique): a row with this pair is there.
UniqueViolation(path, method) ==
    \E r \in saved_queries : r.path = path /\ r.method = method

\* session.query(SavedQuery).filter(path == .., method == ..)
ByPathMethod(path, method) ==
    { r \in saved_queries : r.path = path /\ r.method = method }

\* session.query(SavedQuery).filter(SavedQuery.id == query_id)
ById(query_id) == { r \in saved_queries : r.id = query_id }

(* ------------------------------ text ----------------------------------- *)
\* lower-casing, as ILIKE and str.lower() apply it
Lowercase ==
    [c \in { "A", "B", "C", "D", "E", "F", "G", "H", "I", "J", "K", "L", "M",
             "N", "O", "P", "Q", "R", "S", "T", "U", "V", "W", "X", "Y", "Z" } |->
        CASE c = "A" -> "a" [] c = "B" -> "b" [] c = "C" -> "c" [] c = "D" -> "d"
          [] c = "E" -> "e" [] c = "F" -> "f" [] c = "G" -> "g" [] c = "H" -> "h"
          [] c = "I" -> "i" [] c = "J" -> "j" [] c = "K" -> "k" [] c = "L" -> "l"
          [] c = "M" -> "m" [] c = "N" -> "n" [] c = "O" -> "o" [] c = "P" -> "p"
          [] c = "Q" -> "q" [] c = "R" -> "r" [] c = "S" -> "s" [] c = "T" -> "t"
          [] c = "U" -> "u" [] c = "V" -> "v" [] c = "W" -> "w" [] c = "X" -> "x"
          [] c = "Y" -> "y" [] c = "Z" -> "z"]

LowerChar(c) == IF c \in DOMAIN Lowercase THEN Lowercase[c] ELSE c

Lower(s) == [i \in 1..Len(s) |-> LowerChar(s[i])]

\* PostgreSQL LIKE: % matches any run of characters, _ any one character, and a
\* backslash takes the character after it literally.
RECURSIVE Like(_, _)
Like(s, pat) ==
    IF pat = <<>> THEN s = <<>>
    ELSE IF Head(pat) = "%"
        THEN Like(s, Tail(pat)) \/ (s # <<>> /\ Like(Tail(s), pat))
    ELSE IF Head(pat) = "\\" /\ Len(pat) >= 2
        THEN s # <<>> /\ Head(s) = pat[2] /\ Like(Tail(s), Tail(Tail(pat)))
    ELSE IF Head(pat) = "_"
        THEN s # <<>> /\ Like(Tail(s), Tail(pat))
    ELSE s # <<>> /\ Head(s) = Head(pat) /\ Like(Tail(s), Tail(pat))

\* column.ilike(pattern)
ILike(s, pat) == Like(Lower(s), Lower(pat))

\* search_pattern = f"%{search_term}%"
SearchPattern(search_term) == <<"%">> \o search_term \o <<"%">>

(* ------------------------------ queries -------------------------------- *)
\* .first(): one of the rows the filter leaves, None when it leaves none
First(S) == IF S = {} THEN { {} } ELSE { {r} : r \in S }

\* order_by(usage_count.desc(), timestamp.desc()) holds of the sequence s
OrderedByUsage(s) ==
    \A i \in 1..(Len(s) - 1) :
        \/ s[i].usage_count > s[i + 1].usage_count
        \/ /\ s[i].usage_count = s[i + 1].usage_count
           /\ s[i].timestamp >= s[i + 1].timestamp

\* .order_by(...).all(): the rows of S in an order the ORDER BY allows; rows that
\* tie on both columns come in whatever order the storage yields them.
AllOrdered(S) ==
    { s \in [1..Cardinality(S) -> S] :
        /\ \A i, j \in 1..Cardinality(S) : i # j => s[i] # s[j]
        /\ OrderedByUsage(s) }

\* the rows the filter of search_queries keeps
SearchFilter(search_term) ==
    { r \in saved_queries :
        \/ ILike(r.description, SearchPattern(search_term))
        \/ ILike(r.path, SearchPattern(search_term)) }

(* ------------------------------ calls ---------------------------------- *)
\* how a statement or the commit of a session can end: done, or failed by the
\* storage layer (connection lost, server gone)
Faults == { "none", "OperationalError" }

\* a context manager that closes the session after the commit only
get_session_closing_after_commit(before, written, error) ==
    [rows |-> IF error = "none" THEN written ELSE before,
     ended |-> IF error = "none" THEN "commit" ELSE "rollback",
     closed |-> error = "none"]

\* get_session(): how the with block is left, given the table as it was when the
\* session began, the table as the block's statements wrote it, and the error
\* the block or the commit ended with ("none": neither failed).  try: yield,
\* commit; except: rollback, raise; finally: close.
get_session(before, written, error) ==
    [rows |-> IF error = "none" THEN written ELSE before,
     ended |-> IF error = "none" THEN "commit" ELSE "rollback",
     closed |-> TRUE]

\* an except clause that logs the error and returns
Logged(error) == "none"

\* except ...: logger.error(...); raise
Reraise(error) == error

\* no call has ended yet
NoCall ==
    [op |-> "", args |-> NoArgs, ret |-> RetNone, err |-> "none", session |-> "",
     tiers |-> <<>>]

\* a call ends: what it was, what it gave and how its session ended
Finish(p, name, a, value, error, exit) ==
    last' = [op |-> name, args |-> a,
             ret |-> IF error = "none" THEN value ELSE RetNone,
             err |-> Reraise(error), session |-> exit.ended, tiers |-> <<>>]

\* caller p has opened `opened` sessions in this step and left the with block
\* of one session with `exit`
Left(p, opened, exit) ==
    sessions' = [sessions EXCEPT ![p] = @ + opened - (IF exit.closed THEN 1 ELSE 0)]

\* a call starts
Started ==
    /\ calls < MaxCalls
    /\ calls' = calls + 1

\* time passes
Tick ==
    /\ clock < MaxClock
    /\ clock' = clock + 1
    /\ UNCHANGED <<saved_queries, id_seq, pc, args, loaded, current_timestamp,
                   last, calls, applied, sessions, catalog_vars, server_vars>>

(* ------------------------------ save_query ----------------------------- *)
\* with self.get_session() as session:
\* existing_query = session.query(SavedQuery).filter(...).first()
\* current_timestamp = int(time.time())
\* A SELECT that fails ends the call there.
save_query_select(p, description, path, method, params, data, fault) ==
    LET a == [NoArgs EXCEPT !.description = description, !.path = path,
                            !.method = method, !.params = params, !.data = data]
        exit == get_session(saved_queries, saved_queries, fault)
    IN
    /\ pc[p] = "idle"
    /\ Started
    /\ IF fault = "none"
       THEN /\ \E found \in First(ByPathMethod(path, method)) :
                 loaded' = [loaded EXCEPT ![p] = found]
            /\ current_timestamp' = [current_timestamp EXCEPT ![p] = clock]
            /\ pc' = [pc EXCEPT ![p] = "save_selected"]
            /\ args' = [args EXCEPT ![p] = a]
            /\ sessions' = [sessions EXCEPT ![p] = @ + 1]
            /\ UNCHANGED last
       ELSE /\ Finish(p, "save_query", a, RetNone, fault, exit)
            /\ Left(p, 1, exit)
            /\ UNCHANGED <<pc, args, loaded, current_timestamp>>
    /\ UNCHANGED <<saved_queries, id_seq, clock, applied, catalog_vars, server_vars>>

\* the count taken from the loaded object: existing_query.usage_count + 1
UsageCountFromLoaded(current, existing_query) == existing_query.usage_count + 1

\* existing_query.usage_count = SavedQuery.usage_count + 1: the UPDATE computes
\* the new count from the row it writes (current), not from the object the
\* session loaded (existing_query).
UsageCountPlusOne(current, existing_query) == current.usage_count + 1

\* an UPDATE that writes the row the way the INSERT would: the count starts over
UpdatedQueryRestarted(current, existing_query, a, timestamp) ==
    [current EXCEPT !.usage_count = 1,
                    !.timestamp = timestamp,
                    !.params = a.params,
                    !.data = a.data,
                    !.description = a.description]

\* the row as the UPDATE of save_query leaves it
UpdatedQuery(current, existing_query, a, timestamp) ==
    [current EXCEPT !.usage_count = UsageCountPlusOne(current, existing_query),
                    !.timestamp = timestamp,
                    !.params = a.params,
                    !.data = a.data,
                    !.description = a.description]

\* the column default of usage_count, used when the INSERT names no count
DefaultUsageCount == 0

\* usage_count=1 of the row save_query inserts
NewUsageCount == 1

\* save_query is left: the session is closed, its objects and locals are gone
SaveLeft(p) ==
    /\ pc' = [pc EXCEPT ![p] = "idle"]
    /\ args' = [args EXCEPT ![p] = NoArgs]
    /\ loaded' = [loaded EXCEPT ![p] = {}]
    /\ current_timestamp' = [current_timestamp EXCEPT ![p] = 0]

\* flush() and the commit on leaving the session: UPDATE ... WHERE id = :id when
\* the SELECT found a row (StaleDataError when the UPDATE matches none), else
\* INSERT (IntegrityError on the unique index; the sequence value is used up
\* either way, and may or may not be when the storage fails); an error rolls
\* back and is raised.
save_query_flush(p, fault) ==
    /\ pc[p] = "save_selected"
    /\ IF loaded[p] # {}
       THEN LET existing_query == CHOOSE r \in loaded[p] : TRUE
                error == IF fault # "none" THEN fault
                         ELSE IF ById(existing_query.id) = {} THEN "StaleDataError"
                         ELSE "none"
                written == (saved_queries \ ById(existing_query.id)) \cup
                    { UpdatedQuery(current, existing_query, args[p],
                                   current_timestamp[p]) :
                        current \in ById(existing_query.id) }
                exit == get_session(saved_queries, written, error)
            IN /\ saved_queries' = exit.rows
               /\ applied' = IF error = "none"
                             THEN [applied EXCEPT ![existing_query.id] = @ + 1]
                             ELSE applied
               /\ Finish(p, "save_query", args[p], RetInt(existing_query.id),
                         error, exit)
               /\ Left(p, 0, exit)
               /\ UNCHANGED id_seq
       ELSE LET error == IF fault # "none" THEN fault
                         ELSE IF UniqueViolation(args[p].path, args[p].method)
                              THEN "IntegrityError"
                         ELSE "none"
                written == IF UniqueViolation(args[p].path, args[p].method)
                    THEN saved_queries
                    ELSE saved_queries \cup
                          { SavedQuery(id_seq, args[p].description, args[p].path,
                                       args[p].method, args[p].params, args[p].data,
                                       current_timestamp[p], NewUsageCount) }
                exit == get_session(saved_queries, written, error)
            IN /\ id_seq' \in (IF fault = "none" THEN { id_seq + 1 }
                               ELSE { id_seq, id_seq + 1 })
               /\ saved_queries' = exit.rows
               /\ applied' = IF error = "none"
                             THEN [applied EXCEPT ![id_seq] = 1]
                             ELSE applied
               /\ Finish(p, "save_query", args[p], RetInt(id_seq), error, exit)
               /\ Left(p, 0, exit)
    /\ SaveLeft(p)
    /\ UNCHANGED <<clock, calls, catalog_vars, server_vars>>

(* ------------------------------ reads ---------------------------------- *)
\* a lookup that counts the hit on the row it returns
find_query_counting(p, path, method, fault) ==
    LET exit == get_session(saved_queries, saved_queries, fault) IN
    /\ pc[p] = "idle"
    /\ Started
    /\ \E found \in First(ByPathMethod(path, method)) :
         /\ Finish(p, "find_query", [NoArgs EXCEPT !.path = path, !.method = method],
                   IF found = {} THEN RetNone ELSE RetDict(CHOOSE r \in found : TRUE),
                   fault, exit)
         /\ saved_queries' = (saved_queries \ found) \cup
                { [r EXCEPT !.usage_count = @ + 1] : r \in found }
    /\ Left(p, 1, exit)
    /\ UNCHANGED <<id_seq, clock, pc, args, loaded, current_timestamp,
                   applied, catalog_vars, server_vars>>

\* .first() raises nothing when the filter leaves no row; `if not query:
\* return None`
FoundFirst(found) == "none"

\* session.query(SavedQuery).filter(...).first(), returned as a dict or None
find_query(p, path, method, fault) ==
    /\ pc[p] = "idle"
    /\ Started
    /\ \E found \in First(ByPathMethod(path, method)) :
         LET error == IF fault # "none" THEN fault ELSE FoundFirst(found)
             exit == get_session(saved_queries, saved_queries, error)
         IN /\ Finish(p, "find_query",
                      [NoArgs EXCEPT !.path = path, !.method = method],
                      IF found = {} THEN RetNone
                      ELSE RetDict(CHOOSE r \in found : TRUE),
                      error, exit)
            /\ Left(p, 1, exit)
    /\ UNCHANGED <<saved_queries, id_seq, clock, pc, args, loaded,
                   current_timestamp, applied, catalog_vars, server_vars>>

search_queries(p, search_term, fault) ==
    LET exit == get_session(saved_queries, saved_queries, fault) IN
    /\ pc[p] = "idle"
    /\ Started
    /\ \E results \in AllOrdered(SearchFilter(search_term)) :
         Finish(p, "search_queries", [NoArgs EXCEPT !.search_term = search_term],
                RetList(results), fault, exit)
    /\ Left(p, 1, exit)
    /\ UNCHANGED <<saved_queries, id_seq, clock, pc, args, loaded,
                   current_timestamp, applied, catalog_vars, server_vars>>

get_all_queries(p, fault) ==
    LET exit == get_session(saved_queries, saved_queries, fault) IN
    /\ pc[p] = "idle"
    /\ Started
    /\ \E results \in AllOrdered(saved_queries) :
         Finish(p, "get_all_queries", NoArgs, RetList(results), fault, exit)
    /\ Left(p, 1, exit)
    /\ UNCHANGED <<saved_queries, id_seq, clock, pc, args, loaded,
                   current_timestamp, applied, catalog_vars, server_vars>>

(* ------------------------------ writes --------------------------------- *)
\* SavedQuery.usage_count: SavedQuery.usage_count + 1
IncrementedUsage(r) == r.usage_count + 1

\* no row matched treated as an error
IncrementOutcomeRaising(result) == IF result = 0 THEN "ValueError" ELSE "none"

\* if result == 0: logger.warning(...) else: logger.debug(...); nothing is raised
IncrementOutcome(result) == "none"

\* one UPDATE ... WHERE id = :query_id and the commit
increment_usage(p, query_id, fault) ==
    LET error == IF fault # "none" THEN fault
                 ELSE IncrementOutcome(Cardinality(ById(query_id)))
        written == (saved_queries \ ById(query_id)) \cup
            { [r EXCEPT !.usage_count = IncrementedUsage(r), !.timestamp = clock] :
                r \in ById(query_id) }
        exit == get_session(saved_queries, written, error)
    IN
    /\ pc[p] = "idle"
    /\ Started
    /\ saved_queries' = exit.rows
    /\ applied' = [applied EXCEPT ![query_id] =
                     IF ById(query_id) # {} /\ error = "none" THEN @ + 1 ELSE @]
    /\ Finish(p, "increment_usage", [NoArgs EXCEPT !.query_id = query_id],
              RetNone, error, exit)
    /\ Left(p, 1, exit)
    /\ UNCHANGED <<id_seq, clock, pc, args, loaded, current_timestamp, catalog_vars, server_vars>>

\* the value delete_query hands back: the function has no return statement
DeleteResult(result) == RetNone

\* one DELETE ... WHERE id = :query_id and the commit
delete_query(p, query_id, fault) ==
    LET exit == get_session(saved_queries, saved_queries \ ById(query_id), fault) IN
    /\ pc[p] = "idle"
    /\ Started
    /\ saved_queries' = exit.rows
    /\ applied' = [applied EXCEPT ![query_id] = IF fault = "none" THEN 0 ELSE @]
    /\ Finish(p, "delete_query", [NoArgs EXCEPT !.query_id = query_id],
              DeleteResult(Cardinality(ById(query_id))), fault, exit)
    /\ Left(p, 1, exit)
    /\ UNCHANGED <<id_seq, clock, pc, args, loaded, current_timestamp, catalog_vars, server_vars>>

\* a DELETE that spares the rows used more than once
ClearedUnusedOnly(rows) == { r \in rows : r.usage_count > 1 }

\* the rows DELETE FROM saved_queries leaves
Cleared(rows) == {}

\* count = session.query(SavedQuery).delete(); return count
clear_all(p, fault) ==
    LET exit == get_session(saved_queries, Cleared(saved_queries), fault) IN
    /\ pc[p] = "idle"
    /\ Started
    /\ saved_queries' = exit.rows
    /\ applied' = IF fault = "none" THEN [i \in Ids |-> 0] ELSE applied
    /\ Finish(p, "clear_all", NoArgs, RetInt(Cardinality(saved_queries)), fault, exit)
    /\ Left(p, 1, exit)
    /\ UNCHANGED <<id_seq, clock, pc, args, loaded, current_timestamp, catalog_vars, server_vars>>

(* ------------------------------ paths ---------------------------------- *)
\* a returned str
RetStr(s) == [kind |-> "str", n |-> 0, rows |-> s]

\* the characters str.strip() removes
Whitespace == { " " }

\* s.lstrip(chars)
RECURSIVE LStrip(_, _)
LStrip(s, chars) ==
    IF s # <<>> /\ Head(s) \in chars THEN LStrip(Tail(s), chars) ELSE s

\* s.rstrip(chars)
RECURSIVE RStrip(_, _)
RStrip(s, chars) ==
    IF s # <<>> /\ s[Len(s)] \in chars
    THEN RStrip(SubSeq(s, 1, Len(s) - 1), chars)
    ELSE s

\* s.strip()
Strip(s) == RStrip(LStrip(s, Whitespace), Whitespace)

\* s.startswith(prefix)
StartsWith(s, prefix) ==
    Len(s) >= Len(prefix) /\ SubSeq(s, 1, Len(prefix)) = prefix

\* s.endswith('/')
EndsWithSlash(s) == s # <<>> /\ s[Len(s)] = "/"

\* every run of slashes kept as it is
KeptSlashes(s) == s

\* re.sub(r'/+', '/', s): every run of slashes becomes one slash
RECURSIVE CollapseSlashes(_)
CollapseSlashes(s) ==
    IF s = <<>> THEN <<>>
    ELSE IF Head(s) = "/" THEN <<"/">> \o CollapseSlashes(LStrip(s, { "/" }))
    ELSE <<Head(s)>> \o CollapseSlashes(Tail(s))

_normalize_path(path) ==
    IF path = <<>> THEN <<"/">>
    ELSE LET collapsed == CollapseSlashes(Strip(path))
             normalized == IF StartsWith(collapsed, <<"/">>) THEN collapsed
                           ELSE <<"/">> \o collapsed
         IN IF Len(normalized) > 1 /\ EndsWithSlash(normalized)
            THEN RStrip(normalized, { "/" })
            ELSE normalized

\* '{id}', what a segment that looks like a value becomes
IdMarker == <<"{", "i", "d", "}">>

\* '{param}', the replacement of _convert_to_generic_pattern
ParamMarker == <<"{", "p", "a", "r", "a", "m", "}">>

\* r'\{[^/}]+\}' matched at the start of s: a placeholder held to one segment
PlaceholderInSegmentAt(s) ==
    IF /\ Len(s) >= 3
       /\ s[1] = "{"
       /\ \E j \in 3..Len(s) :
             s[j] = "}" /\ \A k \in 2..(j - 1) : s[k] \notin { "}", "/" }
    THEN CHOOSE j \in 3..Len(s) :
             s[j] = "}" /\ \A k \in 2..(j - 1) : s[k] \notin { "}", "/" }
    ELSE 0

\* r'\{[^}]+\}' matched at the start of s: the length of the match, 0 when there
\* is none.  [^}]+ runs up to the first closing brace and needs one character.
PlaceholderAt(s) ==
    IF /\ Len(s) >= 3
       /\ s[1] = "{"
       /\ s[2] # "}"
       /\ \E j \in 3..Len(s) : s[j] = "}"
    THEN CHOOSE j \in 3..Len(s) : s[j] = "}" /\ \A k \in 3..(j - 1) : s[k] # "}"
    ELSE 0

\* re.sub(r'\{[^}]+\}', '{param}', path), leftmost matches first
RECURSIVE _convert_to_generic_pattern(_)
_convert_to_generic_pattern(path) ==
    IF path = <<>> THEN path
    ELSE IF PlaceholderAt(path) > 0
         THEN ParamMarker \o
              _convert_to_generic_pattern(
                  SubSeq(path, PlaceholderAt(path) + 1, Len(path)))
    ELSE <<Head(path)>> \o _convert_to_generic_pattern(Tail(path))

\* s.split(sep)
RECURSIVE Split(_, _)
Split(s, sep) ==
    IF \A i \in DOMAIN s : s[i] # sep THEN <<s>>
    ELSE LET i == CHOOSE k \in DOMAIN s : s[k] = sep /\ \A j \in 1..(k - 1) : s[j] # sep
         IN <<SubSeq(s, 1, i - 1)>> \o Split(SubSeq(s, i + 1, Len(s)), sep)

\* sep.join(parts)
RECURSIVE Join(_, _)
Join(parts, sep) ==
    IF parts = <<>> THEN <<>>
    ELSE IF Len(parts) = 1 THEN parts[1]
    ELSE parts[1] \o <<sep>> \o Join(Tail(parts), sep)

(* ------------------------------ segments ------------------------------- *)
Digits == { "0", "1", "2", "3", "4", "5", "6", "7", "8", "9" }

LowerLetters ==
    { "a", "b", "c", "d", "e", "f", "g", "h", "i", "j", "k", "l", "m",
      "n", "o", "p", "q", "r", "s", "t", "u", "v", "w", "x", "y", "z" }

UpperLetters == DOMAIN Lowercase

Letters == LowerLetters \cup UpperLetters

\* [a-f0-9] under re.IGNORECASE
HexDigits == Digits \cup { "a", "b", "c", "d", "e", "f", "A", "B", "C", "D", "E", "F" }

\* [\w\-]
WordOrHyphen == Letters \cup Digits \cup { "_", "-" }

\* [A-Za-z0-9+/=_-]
Base64Like == Letters \cup Digits \cup { "+", "/", "=", "_", "-" }

AllIn(s, chars) == \A i \in DOMAIN s : s[i] \in chars

\* re.match(r'^\d+$', segment)
IsNumericId(segment) == segment # <<>> /\ AllIn(segment, Digits)

\* re.match(r'^[a-f0-9]{8}-[a-f0-9]{4}-[a-f0-9]{4}-[a-f0-9]{4}-[a-f0-9]{12}$',
\*          segment, re.IGNORECASE)
IsUuid(segment) ==
    /\ Len(segment) = 36
    /\ \A i \in 1..36 :
          IF i \in { 9, 14, 19, 24 } THEN segment[i] = "-"
          ELSE segment[i] \in HexDigits

\* re.match(r'^[A-Z]{2,4}-[\w\-]+$', segment, re.IGNORECASE)
IsPrefixedId(segment) ==
    \E n \in 2..4 :
        /\ Len(segment) >= n + 2
        /\ AllIn(SubSeq(segment, 1, n), Letters)
        /\ segment[n + 1] = "-"
        /\ AllIn(SubSeq(segment, n + 2, Len(segment)), WordOrHyphen)

\* len(segment) >= 8 and re.match(r'^[a-zA-Z0-9]+$', segment)
\* and re.search(r'\d', segment) and re.search(r'[a-zA-Z]', segment)
IsLongAlphanumeric(segment) ==
    /\ Len(segment) >= 8
    /\ AllIn(segment, Letters \cup Digits)
    /\ \E i \in DOMAIN segment : segment[i] \in Digits
    /\ \E i \in DOMAIN segment : segment[i] \in Letters

\* len(segment) >= 10 and re.match(r'^[A-Za-z0-9+/=_-]+$', segment)
IsBase64Like(segment) == Len(segment) >= 10 /\ AllIn(segment, Base64Like)

\* one of the five tests of _convert_segment_to_parameter answers yes
LooksLikeValue(segment) ==
    \/ IsNumericId(segment)
    \/ IsUuid(segment)
    \/ IsPrefixedId(segment)
    \/ IsLongAlphanumeric(segment)
    \/ IsBase64Like(segment)

(* ------------------------------ catalog -------------------------------- *)
\* a row of table endpoints: the columns the resolver reads
Endpoint(id, path, method) == [id |-> id, path |-> path, method |-> method]

\* SELECT COUNT(*) as count FROM endpoints WHERE path LIKE '%/<segment>%':
\* count > 0
SegmentExists(segment) ==
    \E r \in endpoints : Like(r.path, <<"%", "/">> \o segment \o <<"%">>)

\* the segment has an entry in the cache
Cached(segment, cache) == \E e \in cache : e.segment = segment

\* _is_known_path_segment with the cache as it stands; lookup_fails: the query
\* raises, which the method answers with False and does not cache
_is_known_path_segment(segment, cache, lookup_fails) ==
    IF segment = <<>> THEN FALSE
    ELSE IF Cached(segment, cache)
         THEN (CHOOSE e \in cache : e.segment = segment).known
    ELSE IF lookup_fails THEN FALSE
    ELSE SegmentExists(segment)

\* the segments of a set that a call looks up in the table
LookedUp(segments, cache) ==
    { segment \in segments : segment # <<>> /\ ~Cached(segment, cache) }

\* self._known_segments_cache after the segments have been asked for
CacheAfter(segments, cache, lookup_fails) ==
    IF lookup_fails THEN cache
    ELSE cache \cup { [segment |-> segment, known |-> SegmentExists(segment)] :
                        segment \in LookedUp(segments, cache) }

_convert_segment_to_parameter(segment, cache, lookup_fails) ==
    IF segment = <<>> THEN segment
    ELSE IF _is_known_path_segment(segment, cache, lookup_fails) THEN segment
    ELSE IF LooksLikeValue(segment) THEN IdMarker
    ELSE segment

\* the segments _convert_to_parameterized_path splits the path into
SegmentsOf(path) ==
    IF path = <<>> \/ path = <<"/">> THEN <<>>
    ELSE Split(IF StartsWith(RStrip(path, { "/" }), <<"/">>)
               THEN RStrip(path, { "/" })
               ELSE <<"/">> \o RStrip(path, { "/" }), "/")

_convert_to_parameterized_path(path, cache, lookup_fails) ==
    IF path = <<>> \/ path = <<"/">> THEN path
    ELSE LET segments == SegmentsOf(path)
         IN Join([i \in DOMAIN segments |->
                    _convert_segment_to_parameter(segments[i], cache,
                                                  lookup_fails)], "/")

\* the set of the path's segments
SegmentSet(path) ==
    LET segments == SegmentsOf(path) IN { segments[i] : i \in DOMAIN segments }

\* SELECT * FROM endpoints WHERE id = :id, as a dict; the row's parameters and
\* bodies are added to it and do not bear on which row it is
get_endpoint_details(endpoint_id) == CHOOSE r \in endpoints : r.id = endpoint_id

\* result.fetchall(): the rows in whatever order the storage yields them
Scans(S) ==
    { s \in [1..Cardinality(S) -> S] :
        \A i, j \in 1..Cardinality(S) : i # j => s[i] # s[j] }

\* for row in result.fetchall(): the index of the first row whose generic
\* pattern is the wanted one, 0 when the loop ends without one
FirstMatch(rows, generic_pattern) ==
    IF \E i \in DOMAIN rows : _convert_to_generic_pattern(rows[i].path) = generic_pattern
    THEN CHOOSE i \in DOMAIN rows :
            /\ _convert_to_generic_pattern(rows[i].path) = generic_pattern
            /\ \A j \in 1..(i - 1) :
                  _convert_to_generic_pattern(rows[j].path) # generic_pattern
    ELSE 0

\* where the storage can fail while the catalog is read: nowhere, in the
\* exact-match SELECT, in the known-segment lookups, in the SELECT of the scan,
\* in get_endpoint_details
CatalogFaults == { "none", "exact", "lookup", "scan", "details" }

\* except SQLAlchemyError as e: raise Exception(f"Database error ...")
Wrapped(error) == IF error = "none" THEN "none" ELSE "Exception"

\* sessions a call leaves open: one per session it opened whose with block
\* ended with `error` and was not closed
Unclosed(opened, error) ==
    IF get_session(endpoints, endpoints, error).closed THEN 0 ELSE opened

\* a call of the catalog reader ends.  It opened its own session, a further one
\* for each known-segment lookup and, if hydrated, one in get_endpoint_details.
CatalogDone(p, name, a, value, error, cache, lookups, lookup_fails, hydrated) ==
    /\ Started
    /\ last' = [op |-> name, args |-> a,
                ret |-> IF error = "none" THEN value ELSE RetNone,
                err |-> Wrapped(error),
                session |-> get_session(endpoints, endpoints, error).ended,
                tiers |-> <<>>]
    /\ known_segments_cache' = cache
    /\ has_cache' = (has_cache \/ lookups > 0)
    /\ sessions' = [sessions EXCEPT ![p] =
           @ + Unclosed(1, error)
             + Unclosed(lookups, IF lookup_fails THEN "OperationalError" ELSE "none")
             + Unclosed(IF hydrated THEN 1 ELSE 0, error)]
    /\ UNCHANGED <<saved_queries, id_seq, clock, pc, args, loaded,
                   current_timestamp, applied, endpoints, body_vars,
                   server_vars>>

\* every row of the catalog, whatever its method
OfAnyMethod(method) == endpoints

\* AND method = :method / WHERE method = :method with {"method": method.lower()}:
\* the rows both SELECTs of find_endpoint_by_path_method are restricted to
OfMethod(method) == { r \in endpoints : r.method = Lower(method) }

\* return self.get_endpoint_details(row.id)
Hydrated(p, a, row, fault, cache, lookups) ==
    CatalogDone(p, "find_endpoint_by_path_method", a,
                RetDict(get_endpoint_details(row.id)),
                IF fault = "details" THEN "OperationalError" ELSE "none",
                cache, lookups, fault = "lookup", TRUE)

\* find_endpoint_by_path_method(path, method): the exact match (ILIKE, first row
\* of the result), else the scan for the generic pattern of the parameterized
\* path (first row that matches), else None.  After the loop the code calls
\* fetchone() on a result that is used up, which gives None.
find_endpoint_by_path_method(p, path, method, fault) ==
    LET normalized_path == _normalize_path(path)
        a == [NoArgs EXCEPT !.path = path, !.method = method]
        exact == { r \in OfMethod(method) : ILike(r.path, normalized_path) }
        lookup_fails == fault = "lookup"
        parameterized_path ==
            _convert_to_parameterized_path(normalized_path, known_segments_cache,
                                           lookup_fails)
        generic_pattern == _convert_to_generic_pattern(parameterized_path)
        cache == CacheAfter(SegmentSet(normalized_path), known_segments_cache,
                            lookup_fails)
        lookups == Cardinality(LookedUp(SegmentSet(normalized_path),
                                        known_segments_cache))
        candidates == OfMethod(method)
    IN
    IF fault = "exact"
    THEN CatalogDone(p, "find_endpoint_by_path_method", a, RetNone,
                     "OperationalError", known_segments_cache, 0, FALSE, FALSE)
    ELSE IF exact # {}
    THEN \E row \in exact : Hydrated(p, a, row, fault, known_segments_cache, 0)
    ELSE IF generic_pattern = parameterized_path
    THEN CatalogDone(p, "find_endpoint_by_path_method", a, RetNone, "none",
                     cache, lookups, lookup_fails, FALSE)
    ELSE IF fault = "scan"
    THEN CatalogDone(p, "find_endpoint_by_path_method", a, RetNone,
                     "OperationalError", cache, lookups, lookup_fails, FALSE)
    ELSE \E rows \in Scans(candidates) :
           IF FirstMatch(rows, generic_pattern) = 0
           THEN CatalogDone(p, "find_endpoint_by_path_method", a, RetNone, "none",
                            cache, lookups, lookup_fails, FALSE)
           ELSE Hydrated(p, a, rows[FirstMatch(rows, generic_pattern)], fault,
                         cache, lookups)

\* _convert_to_parameterized_path(path) called on a path
parameterize(p, path, fault) ==
    CatalogDone(p, "_convert_to_parameterized_path",
                [NoArgs EXCEPT !.path = path],
                RetStr(_convert_to_parameterized_path(path, known_segments_cache,
                                                      fault = "lookup")),
                "none",
                CacheAfter(SegmentSet(path), known_segments_cache, fault = "lookup"),
                Cardinality(LookedUp(SegmentSet(path), known_segments_cache)),
                fault = "lookup", FALSE)

\* _convert_segment_to_parameter(segment) called on a segment
classify(p, segment, fault) ==
    CatalogDone(p, "_convert_segment_to_parameter",
                [NoArgs EXCEPT !.path = segment],
                RetStr(_convert_segment_to_parameter(segment, known_segments_cache,
                                                     fault = "lookup")),
                "none",
                CacheAfter({ segment }, known_segments_cache, fault = "lookup"),
                Cardinality(LookedUp({ segment }, known_segments_cache)),
                fault = "lookup", FALSE)

(* ------------------------------ search tiers --------------------------- *)
\* LIMIT 50 of the ranked statement of search_endpoints
SearchCap == 50

\* rows a statement's WHERE clause can match: none, one, more than any limit
MaxRows == 51
RowCounts == { 0, 1, MaxRows }

\* the limits a caller passes
MaxLimit == 2
Limits == 1..MaxLimit

\* the statements a search can run, by what they match with
WebSearch == "websearch_to_tsquery"
PlainTo == "plainto_tsquery"
Substring == "ILIKE"
Tiers == { WebSearch, PlainTo, Substring }

\* what the probe can find: the search_vector column present and filled, the
\* column absent or all NULL, or the probe's own query failing
Capabilities == { "ready", "absent", "failed" }

\* a statement succeeds, is refused by the server (the storage stays reachable),
\* or loses the connection
TierFaults == { "none", "ProgrammingError", "OperationalError" }

\* what one call meets: the state of the index, and per statement whether it
\* fails and how many rows its WHERE clause matches
Environments ==
    [capability : Capabilities,
     fault : [Tiers -> TierFaults],
     matched : [Tiers -> RowCounts]]

\* a probe that always reports the index
AlwaysRanked(capability) == TRUE

\* has_fulltext_search(): True only when both probe queries ran and found the
\* column filled; except Exception: return False
has_fulltext_search(capability) == capability = "ready"

\* the probe as a statement in the log of the call
Probe(capability) ==
    [tier |-> "probe",
     error |-> IF capability = "failed" THEN "OperationalError" ELSE "none",
     matched |-> IF capability = "ready" THEN 1 ELSE 0,
     keywords |-> <<>>]

\* a tier's statement in the log of the call: what failed, how many rows
\* matched, and the keywords its patterns were made from (none where the
\* statement is given the query as it is)
Statement(tier, error, matched) ==
    [tier |-> tier, error |-> error, matched |-> IF error = "none" THEN matched ELSE 0,
     keywords |-> <<>>]

Min(a, b) == IF a <= b THEN a ELSE b

\* the first n rows a tier's ORDER BY puts in front
Rows(tier, n) == [i \in 1..n |-> [tier |-> tier, rank |-> i]]

\* LIMIT :limit_val
Limited(tier, matched, limit) == Rows(tier, Min(matched, limit))

\* a statement without LIMIT: result.fetchall() is every matching row
Unlimited(tier, matched) == Rows(tier, matched)

\* a ranked tier without the except clause around it
Uncaught(error) == error

\* a ranked tier that goes on to the next one whatever it found
NeverReturned(results) == FALSE

\* except Exception: pass, around a ranked tier
Swallowed(error) == "none"

\* if results: return results
Returned(results) == results # <<>>

\* the sessions of a log that were opened and not closed, each statement in a
\* session of its own
RECURSIVE LeftOpen(_)
LeftOpen(log) ==
    IF log = <<>> THEN 0
    ELSE Unclosed(1, Head(log).error) + LeftOpen(Tail(log))

\* a search ends: what it returned or raised, and the statements it ran
SearchDone(p, name, a, results, error, session, log, open) ==
    /\ Started
    /\ last' = [op |-> name, args |-> a,
                ret |-> IF error = "none" THEN RetList(results) ELSE RetNone,
                err |-> error, session |-> session, tiers |-> log]
    /\ sessions' = [sessions EXCEPT ![p] = @ + open]
    /\ UNCHANGED <<saved_queries, id_seq, clock, pc, args, loaded,
                   current_timestamp, applied, catalog_vars, server_vars>>

\* a ranked statement ends the call: it returned rows, or its failure got past
\* the except clause around it
Ends(s, limit) ==
    \/ Swallowed(s.error) # "none"
    \/ s.error = "none" /\ Returned(Limited(s.tier, s.matched, limit))

\* the ranked tiers of a call, each in a try of its own, one after the other:
\* the statements run, up to the one that ended the call
RECURSIVE Ranked(_, _, _)
Ranked(tiers, env, limit) ==
    IF tiers = <<>> THEN <<>>
    ELSE LET tier == Head(tiers)
             s == Statement(tier, env.fault[tier], env.matched[tier])
         IN IF Ends(s, limit) THEN <<s>>
            ELSE <<s>> \o Ranked(Tail(tiers), env, limit)

\* the ranked statements ended the call
Answered(log, limit) == log # <<>> /\ Ends(log[Len(log)], limit)

\* what the call returns from the ranked statement that ended it
RankedDone(p, name, a, log, limit, session, statements, open) ==
    LET s == log[Len(log)]
    IN SearchDone(p, name, a, Limited(s.tier, s.matched, limit), Swallowed(s.error),
                  session, statements, open)

\* search_endpoints(query): the probe, the ranked statement if the probe says
\* so, else or on no rows or on failure the ILIKE statement without LIMIT
search_endpoints(p, query, env) ==
    LET a == [NoArgs EXCEPT !.search_term = query]
        ranked == IF has_fulltext_search(env.capability)
                  THEN Ranked(<<WebSearch>>, env, SearchCap) ELSE <<>>
        final == Statement(Substring, env.fault[Substring], env.matched[Substring])
        probed == <<Probe(env.capability)>> \o ranked
    IN IF Answered(ranked, SearchCap)
       THEN RankedDone(p, "search_endpoints", a, ranked, SearchCap,
                       get_session(endpoints, endpoints, ranked[Len(ranked)].error).ended,
                       probed, LeftOpen(probed))
       ELSE SearchDone(p, "search_endpoints", a,
                       Unlimited(Substring, final.matched),
                       Wrapped(final.error),
                       get_session(endpoints, endpoints, final.error).ended,
                       probed \o <<final>>, LeftOpen(probed \o <<final>>))

\* the words search_by_natural_language drops
Stopwords ==
    { <<"t", "h", "e">>, <<"a">>, <<"a", "n">>, <<"a", "n", "d">>,
      <<"o", "r">>, <<"b", "u", "t">>, <<"i", "n">>, <<"o", "n">>,
      <<"a", "t">>, <<"t", "o">>, <<"f", "o", "r">>, <<"w", "i", "t", "h">>,
      <<"b", "y">>, <<"a", "b", "o", "u", "t">>, <<"l", "i", "k", "e">>,
      <<"f", "r", "o", "m">>, <<"o", "f">>, <<"a", "s">>, <<"i", "s">>,
      <<"a", "r", "e">>, <<"w", "a", "s">>, <<"w", "e", "r", "e">>,
      <<"b", "e">>, <<"b", "e", "e", "n">>, <<"b", "e", "i", "n", "g">>,
      <<"h", "a", "v", "e">>, <<"h", "a", "s">>, <<"h", "a", "d">>,
      <<"d", "o">>, <<"d", "o", "e", "s">>, <<"d", "i", "d">>,
      <<"w", "i", "l", "l">>, <<"w", "o", "u", "l", "d">>,
      <<"s", "h", "o", "u", "l", "d">>, <<"c", "o", "u", "l", "d">>,
      <<"c", "a", "n">>, <<"i">>, <<"y", "o", "u">>, <<"h", "e">>,
      <<"s", "h", "e">>, <<"i", "t">>, <<"w", "e">>, <<"t", "h", "e", "y">>,
      <<"t", "h", "i", "s">>, <<"t", "h", "a", "t">>,
      <<"t", "h", "e", "s", "e">>, <<"t", "h", "o", "s", "e">>,
      <<"g", "e", "t">>, <<"f", "i", "n", "d">>, <<"s", "h", "o", "w">>,
      <<"l", "i", "s", "t">>, <<"g", "i", "v", "e">>, <<"m", "e">>,
      <<"a", "l", "l">>, <<"s", "o", "m", "e">>, <<"a", "n", "y">>,
      <<"h", "o", "w">>, <<"w", "h", "a", "t">>, <<"w", "h", "e", "n">>,
      <<"w", "h", "e", "r", "e">>, <<"w", "h", "y">> }

\* str.split(): the runs of characters between whitespace
Words(s) ==
    LET parts == Split(s, " ")
    IN SelectSeq(parts, LAMBDA w : w # <<>>)

\* a keyword tier that keeps every word
AllKeywords(query_lower) == Words(query_lower)

\* [word for word in keywords if word not in stopwords and len(word) >= 3]
MinKeywordLen == 3
FilteredKeywords(query_lower) ==
    SelectSeq(Words(query_lower), LAMBDA w : w \notin Stopwords /\ Len(w) >= MinKeywordLen)

\* search_by_natural_language(query, limit): nothing for a blank query; the
\* probe; websearch_to_tsquery, then plainto_tsquery, if the probe says so, each
\* in its own session; else or on no rows or on failure the keywords through
\* ILIKE, nothing when no keyword is left
search_by_natural_language(p, query, limit, env) ==
    LET a == [NoArgs EXCEPT !.search_term = query, !.limit = limit]
        query_lower == Strip(Lower(query))
        ranked == IF has_fulltext_search(env.capability)
                  THEN Ranked(<<WebSearch, PlainTo>>, env, limit) ELSE <<>>
        filtered_keywords == FilteredKeywords(query_lower)
        final == [Statement(Substring, env.fault[Substring], env.matched[Substring])
                      EXCEPT !.keywords = filtered_keywords]
        probed == <<Probe(env.capability)>> \o ranked
    IN IF query_lower = <<>>
       THEN SearchDone(p, "search_by_natural_language", a, <<>>, "none", "", <<>>, 0)
       ELSE IF Answered(ranked, limit)
       THEN RankedDone(p, "search_by_natural_language", a, ranked, limit,
                       get_session(endpoints, endpoints, ranked[Len(ranked)].error).ended,
                       probed, LeftOpen(probed))
       ELSE IF filtered_keywords = <<>>
       THEN SearchDone(p, "search_by_natural_language", a, <<>>, "none",
                       get_session(endpoints, endpoints, probed[Len(probed)].error).ended,
                       probed, LeftOpen(probed))
       ELSE SearchDone(p, "search_by_natural_language", a,
                       Limited(Substring, final.matched, limit),
                       Wrapped(final.error),
                       get_session(endpoints, endpoints, final.error).ended,
                       probed \o <<final>>, LeftOpen(probed \o <<final>>))

\* PostgreSQL: once a statement has failed, every further statement of the same
\* transaction is refused (InFailedSqlTransaction, an InternalError) until the
\* rollback; a session that met no failure runs the statement as it is
InSession(aborted, fault) == IF aborted THEN "InternalError" ELSE fault

\* advanced_search(query, limit, include_highlights): nothing for a blank
\* query; then in ONE session websearch_to_tsquery, plainto_tsquery only where
\* that raised, and ILIKE with LIMIT when neither returned rows
advanced_search(p, query, limit, include_highlights, env) ==
    LET a == [NoArgs EXCEPT !.search_term = query, !.limit = limit]
        first == Statement(WebSearch, env.fault[WebSearch], env.matched[WebSearch])
        second == Statement(PlainTo, InSession(first.error # "none", env.fault[PlainTo]),
                            env.matched[PlainTo])
        ranked == IF Ends(first, limit) \/ first.error = "none"
                  THEN <<first>> ELSE <<first, second>>
        final == Statement(Substring,
                           InSession(first.error # "none", env.fault[Substring]),
                           env.matched[Substring])
    IN IF Strip(query) = <<>>
       THEN SearchDone(p, "advanced_search", a, <<>>, "none", "", <<>>, 0)
       ELSE IF Answered(ranked, limit)
       THEN RankedDone(p, "advanced_search", a, ranked, limit,
                       get_session(endpoints, endpoints, ranked[Len(ranked)].error).ended,
                       ranked, Unclosed(1, ranked[Len(ranked)].error))
       ELSE SearchDone(p, "advanced_search", a,
                       Limited(Substring, final.matched, limit),
                       Wrapped(final.error),
                       get_session(endpoints, endpoints, final.error).ended,
                       ranked \o <<final>>, Unclosed(1, final.error))

(* ------------------------------ proxy ---------------------------------- *)
\* the text of a method name as the catalog reader gets it
MethodText == [method \in Methods |-> <<"G", "E", "T">>]

\* str.upper()
UpperChar(c) ==
    IF \E u \in DOMAIN Lowercase : Lowercase[u] = c
    THEN CHOOSE u \in DOMAIN Lowercase : Lowercase[u] = c
    ELSE c
Upper(s) == [i \in 1..Len(s) |-> UpperChar(s[i])]

\* auto_description = f"{method.upper()} {path}", " with params" and
\* " with data" added for a truthy params and data
AutoDescription(path, method, params, data) ==
    Upper(MethodText[method]) \o <<" ">> \o path
      \o (IF params # "null"
          THEN <<" ", "w", "i", "t", "h", " ", "p", "a", "r", "a", "m", "s">>
          ELSE <<>>)
      \o (IF data # "null" THEN <<" ", "w", "i", "t", "h", " ", "d", "a", "t", "a">>
          ELSE <<>>)

\* find_endpoint_by_path_method as a function of the catalog and the cache: the
\* outcomes it can have, each with the cache it leaves
Resolutions(path, method, cache, fault) ==
    LET normalized_path == _normalize_path(path)
        exact == { r \in OfMethod(method) : ILike(r.path, normalized_path) }
        lookup_fails == fault = "lookup"
        parameterized_path ==
            _convert_to_parameterized_path(normalized_path, cache, lookup_fails)
        generic_pattern == _convert_to_generic_pattern(parameterized_path)
        after == CacheAfter(SegmentSet(normalized_path), cache, lookup_fails)
        candidates == OfMethod(method)
        lookups == Cardinality(LookedUp(SegmentSet(normalized_path), cache))
        hit(row, c, n) ==
            [endpoint |-> IF fault = "details" THEN {}
                          ELSE { get_endpoint_details(row.id) },
             error |-> Wrapped(IF fault = "details" THEN "OperationalError" ELSE "none"),
             cache |-> c, lookups |-> n]
        miss(c, n) == [endpoint |-> {}, error |-> "none", cache |-> c, lookups |-> n]
        failed(c, n) == [endpoint |-> {}, error |-> Wrapped("OperationalError"),
                         cache |-> c, lookups |-> n]
    IN IF fault = "exact" THEN { failed(cache, 0) }
       ELSE IF exact # {} THEN { hit(row, cache, 0) : row \in exact }
       ELSE IF generic_pattern = parameterized_path THEN { miss(after, lookups) }
       ELSE IF fault = "scan" THEN { failed(after, lookups) }
       ELSE { IF FirstMatch(rows, generic_pattern) = 0 THEN miss(after, lookups)
              ELSE hit(rows[FirstMatch(rows, generic_pattern)], after, lookups) :
                rows \in Scans(candidates) }

\* which statement of the store fails during a call of execute_api_call
ProxyFaults == { "none", "find_query", "increment_usage", "save_query" }

\* what make_api_request does: returns the parsed response, or raises APIError
Responses == { "ok", "APIError" }

\* what execute_api_call returns, by the text it starts with or adds
NotDocumented == <<"Warning: No documented API endpoint found">>
ApiErrorText == <<"API Error">>
ErrorText == <<"Error executing API call">>
SavedText == <<"Query automatically saved to cached queries">>
NotSavedText == <<"Note: Failed to auto-save query">>
FromCacheText == <<"[Using query from cached queries">>

\* an entry of the history of proxied calls
Proxied(p, path, method, found, sent, outcome) ==
    [task |-> p, path |-> path, method |-> method, hit |-> found # {},
     sent |-> sent, outcome |-> outcome, started |-> calls + 1,
     overlapped |-> \E q \in Procs \ { p } : pc[q] # "idle"]

\* a proxied call returns or raises without having sent a request
ProxyEnds(p, a, found, text, error, outcome) ==
    /\ last' = [op |-> "execute_api_call", args |-> a,
                ret |-> IF error = "none" THEN RetStr(text) ELSE RetNone,
                err |-> error, session |-> "", tiers |-> <<>>]
    /\ proxied' = Append(proxied, Proxied(p, a.path, a.method, found, FALSE, outcome))
    /\ UNCHANGED <<pc, args, loaded>>

\* the UPDATE of increment_usage on the row check_cached_queries found
UsageCounted(found) ==
    (saved_queries \ found) \cup
        { [r EXCEPT !.usage_count = IncrementedUsage(r), !.timestamp = clock] :
            r \in found }

\* a proxy that goes on whatever the catalog says
ProceedingWithCaution(endpoint) == FALSE

\* if not endpoint: find_endpoint_by_path_method returned None
Undocumented(endpoint) == endpoint = {}

\* a check that finds the saved query and does not count the hit
FoundNotCounted(found, fault) == saved_queries

\* the store as check_cached_queries leaves it: a hit is counted at once
Checked(found, fault) ==
    IF found # {} /\ fault \notin { "find_query", "increment_usage" }
    THEN UsageCounted(found)
    ELSE saved_queries

\* execute_api_call up to the await: check_cached_queries (find_query, and on
\* a hit the flag set and increment_usage; outside the try, so what the store
\* raises leaves the function), the parameters taken from the hit, the
\* endpoint looked up in the catalog, the request sent
execute_api_call(p, path, method, params, data, fault, catalog_fault) ==
    /\ pc[p] = "idle"
    /\ Started
    /\ \E found \in First(ByPathMethod(path, method)) :
         LET cached_queries_entry == CHOOSE r \in found : TRUE
             given == [NoArgs EXCEPT !.path = path, !.method = method,
                                     !.params = params, !.data = data]
             a == [given EXCEPT
                     !.params = IF params = "null" /\ found # {}
                                THEN cached_queries_entry.params ELSE params,
                     !.data = IF data = "null" /\ found # {}
                              THEN cached_queries_entry.data ELSE data]
         IN
         /\ saved_queries' = Checked(found, fault)
         /\ applied' = IF found # {} /\ fault \notin { "find_query", "increment_usage" }
                       THEN [applied EXCEPT ![cached_queries_entry.id] = @ + 1]
                       ELSE applied
         /\ IF fault = "find_query"
            THEN /\ ProxyEnds(p, given, {}, <<>>, "OperationalError", "raised")
                 /\ UNCHANGED <<current_query_from_cached_queries,
                                known_segments_cache, has_cache>>
            ELSE IF found # {} /\ fault = "increment_usage"
            THEN /\ ProxyEnds(p, a, found, <<>>, "OperationalError", "raised")
                 /\ current_query_from_cached_queries' = TRUE
                 /\ UNCHANGED <<known_segments_cache, has_cache>>
            ELSE \E found_endpoint \in Resolutions(path, MethodText[method],
                                                   known_segments_cache, catalog_fault) :
                   /\ known_segments_cache' = found_endpoint.cache
                   /\ has_cache' = (has_cache \/ found_endpoint.lookups > 0)
                   /\ IF found_endpoint.error # "none"
                      THEN /\ ProxyEnds(p, a, found, ErrorText, "none", "error")
                           /\ current_query_from_cached_queries' = FALSE
                      ELSE IF Undocumented(found_endpoint.endpoint)
                      THEN /\ ProxyEnds(p, a, found, NotDocumented, "none", "not_found")
                           /\ current_query_from_cached_queries' = FALSE
                      ELSE /\ pc' = [pc EXCEPT ![p] = "request_sent"]
                           /\ args' = [args EXCEPT ![p] = a]
                           /\ loaded' = [loaded EXCEPT ![p] = found]
                           /\ current_query_from_cached_queries' = (found # {})
                           /\ proxied' = Append(proxied,
                                  Proxied(p, path, method, found, TRUE, "pending"))
                           /\ UNCHANGED last
    /\ UNCHANGED <<id_seq, clock, current_timestamp, sessions, endpoints, body_vars>>

\* save_query as the server's one event loop runs it, SELECT to commit without
\* another task in between: the rows it leaves, the id it returns, the error
Saved(a, description, fault) ==
    LET existing == ByPathMethod(a.path, a.method)
        named == [a EXCEPT !.description = description]
    IN IF fault = "save_query"
       THEN [rows |-> saved_queries, id |-> 0, error |-> "OperationalError",
             created |-> FALSE]
       ELSE IF existing # {}
       THEN [rows |-> (saved_queries \ existing) \cup
                        { UpdatedQuery(current, current, named, clock) :
                            current \in existing },
             id |-> (CHOOSE r \in existing : TRUE).id, error |-> "none",
             created |-> FALSE]
       ELSE [rows |-> saved_queries \cup
                        { SavedQuery(id_seq, description, a.path, a.method, a.params,
                                     a.data, clock, NewUsageCount) },
             id |-> id_seq, error |-> "none", created |-> TRUE]

\* the entry of task p's call in the history
Pending(p) ==
    CHOOSE i \in DOMAIN proxied : proxied[i].task = p /\ proxied[i].outcome = "pending"

\* the call of task p is over
ProxyReturns(p, text, outcome) ==
    /\ last' = [op |-> "execute_api_call", args |-> args[p], ret |-> RetStr(text),
                err |-> "none", session |-> "", tiers |-> <<>>]
    /\ proxied' = [proxied EXCEPT ![Pending(p)] =
                      [@ EXCEPT !.outcome = outcome,
                                !.overlapped = @ \/ calls # proxied[Pending(p)].started]]
    /\ current_query_from_cached_queries' = FALSE
    /\ SaveLeft(p)

\* execute_api_call from the await on: make_api_request raises APIError, or
\* returns and, the global flag being False, the call is saved (a failure of
\* that only noted in the response), else the response names the cached
\* entry the task holds; finally the flag is reset
execute_api_call_resumed(p, response, fault) ==
    /\ pc[p] = "request_sent"
    /\ IF response = "APIError"
       THEN /\ ProxyReturns(p, ApiErrorText, "api_error")
            /\ UNCHANGED <<saved_queries, id_seq, applied>>
       ELSE IF ~current_query_from_cached_queries
       THEN LET saved == Saved(args[p],
                               AutoDescription(args[p].path, args[p].method,
                                               args[p].params, args[p].data),
                               fault)
            IN /\ saved_queries' = saved.rows
               /\ id_seq' \in (IF saved.created THEN { id_seq + 1 }
                               ELSE IF saved.error = "none" THEN { id_seq }
                               ELSE { id_seq, id_seq + 1 })
               /\ applied' = IF saved.error = "none"
                             THEN [applied EXCEPT ![saved.id] = @ + 1]
                             ELSE applied
               /\ IF saved.error = "none"
                  THEN ProxyReturns(p, SavedText, "ok")
                  ELSE ProxyReturns(p, NotSavedText, "ok_not_saved")
       ELSE /\ IF loaded[p] # {}
               THEN ProxyReturns(p, FromCacheText, "ok")
               ELSE ProxyReturns(p, ErrorText, "error")
            /\ UNCHANGED <<saved_queries, id_seq, applied>>
    /\ UNCHANGED <<clock, calls, sessions, catalog_vars>>

(* ------------------------------ known segments, step by step ------------ *)
\* calls of _is_known_path_segment made in all
MaxLookups == 3

\* a returned bool
RetBool(b) == [kind |-> "bool", n |-> IF b THEN 1 ELSE 0, rows |-> <<>>]

\* a call of _is_known_path_segment by caller p is over
KnownDone(p, value, error) ==
    /\ last' = [op |-> "_is_known_path_segment", args |-> args[p],
                ret |-> IF error = "none" THEN RetBool(value) ELSE RetNone,
                err |-> error, session |-> "", tiers |-> <<>>]
    /\ SaveLeft(p)

\* if not segment: return False; if not hasattr(self, '_known_segments_cache')
known_entered(p, segment) ==
    /\ pc[p] = "idle"
    /\ calls < MaxLookups
    /\ calls' = calls + 1
    /\ IF segment = <<>>
       THEN /\ last' = [op |-> "_is_known_path_segment",
                        args |-> [NoArgs EXCEPT !.path = segment],
                        ret |-> RetBool(FALSE), err |-> "none", session |-> "",
                        tiers |-> <<>>]
            /\ UNCHANGED <<pc, args>>
       ELSE /\ pc' = [pc EXCEPT ![p] = IF has_cache THEN "known_cache_there"
                                       ELSE "known_cache_missing"]
            /\ args' = [args EXCEPT ![p] = [NoArgs EXCEPT !.path = segment]]
            /\ UNCHANGED last
    /\ UNCHANGED <<saved_queries, id_seq, clock, loaded, current_timestamp, applied,
                   sessions, catalog_vars, server_vars>>

\* self._known_segments_cache = {}
known_cache_created(p) ==
    /\ pc[p] = "known_cache_missing"
    /\ has_cache' = TRUE
    /\ known_segments_cache' = {}
    /\ pc' = [pc EXCEPT ![p] = "known_cache_there"]
    /\ UNCHANGED <<saved_queries, id_seq, clock, args, loaded, current_timestamp,
                   last, calls, applied, sessions, endpoints, body_vars,
                   server_vars>>

\* if segment in self._known_segments_cache:
known_membership(p) ==
    /\ pc[p] = "known_cache_there"
    /\ pc' = [pc EXCEPT ![p] = IF Cached(args[p].path, known_segments_cache)
                               THEN "known_cached" ELSE "known_not_cached"]
    /\ UNCHANGED <<saved_queries, id_seq, clock, args, loaded, current_timestamp,
                   last, calls, applied, sessions, catalog_vars, server_vars>>

\* return self._known_segments_cache[segment]: the attribute is read again,
\* and a dict without the key raises KeyError
known_read(p) ==
    /\ pc[p] = "known_cached"
    /\ IF Cached(args[p].path, known_segments_cache)
       THEN KnownDone(p, (CHOOSE e \in known_segments_cache :
                              e.segment = args[p].path).known, "none")
       ELSE KnownDone(p, FALSE, "KeyError")
    /\ UNCHANGED <<saved_queries, id_seq, clock, calls, applied, sessions,
                   catalog_vars, server_vars>>

\* the SELECT COUNT(*) in a session of its own; except Exception: return False
known_queried(p, lookup_fails) ==
    /\ pc[p] = "known_not_cached"
    /\ IF lookup_fails
       THEN /\ KnownDone(p, FALSE, "none")
            /\ UNCHANGED sessions
       ELSE /\ pc' = [pc EXCEPT ![p] = "known_counted"]
            /\ sessions' = [sessions EXCEPT ![p] = @ + 1]
            /\ UNCHANGED <<last, args, loaded, current_timestamp>>
    /\ UNCHANGED <<saved_queries, id_seq, clock, calls, applied,
                   catalog_vars, server_vars>>

\* self._known_segments_cache[segment] = exists; return exists; the session is
\* committed and closed
known_stored(p) ==
    LET exists == SegmentExists(args[p].path) IN
    /\ pc[p] = "known_counted"
    /\ known_segments_cache' =
           { e \in known_segments_cache : e.segment # args[p].path }
             \cup { [segment |-> args[p].path, known |-> exists] }
    /\ KnownDone(p, exists, "none")
    /\ sessions' = [sessions EXCEPT ![p] = @ - 1]
    /\ UNCHANGED <<saved_queries, id_seq, clock, calls, applied, endpoints, body_vars,
                   has_cache, server_vars>>

(* ------------------------------ hydration ------------------------------ *)
\* a value of a TEXT column: NULL, or a text
Null == [null |-> TRUE, text |-> <<>>]
Text(s) == [null |-> FALSE, text |-> s]

\* what json.loads gives: None, an int, a list, a dict
JsonNull == [type |-> "null", n |-> 0, items |-> <<>>]
JsonInt(n) == [type |-> "int", n |-> n, items |-> <<>>]
JsonList(items) == [type |-> "list", n |-> 0, items |-> items]
JsonDict == [type |-> "dict", n |-> 0, items |-> <<>>]

DigitText == <<"0", "1", "2", "3", "4", "5", "6", "7", "8", "9">>

\* int() of a run of digits
RECURSIVE Number(_)
Number(s) ==
    IF s = <<>> THEN 0
    ELSE 10 * Number(SubSeq(s, 1, Len(s) - 1))
           + (CHOOSE d \in DOMAIN DigitText : DigitText[d] = s[Len(s)]) - 1

\* json.loads(s) for the documents made of null, numbers without sign,
\* fraction or leading zero, {} and lists of at most one element, with
\* whitespace around every value; ok: the text is such a document, else
\* json.JSONDecodeError is raised
RECURSIVE json_loads(_)
json_loads(s) ==
    LET t == Strip(s)
        inner == SubSeq(t, 2, Len(t) - 1)
        failed == [ok |-> FALSE, value |-> JsonNull]
    IN IF t = <<"n", "u", "l", "l">> THEN [ok |-> TRUE, value |-> JsonNull]
       ELSE IF t # <<>> /\ AllIn(t, Digits) /\ (Len(t) = 1 \/ t[1] # "0")
       THEN [ok |-> TRUE, value |-> JsonInt(Number(t))]
       ELSE IF Len(t) >= 2 /\ t[1] = "{" /\ t[Len(t)] = "}"
       THEN IF Strip(inner) = <<>> THEN [ok |-> TRUE, value |-> JsonDict] ELSE failed
       ELSE IF Len(t) >= 2 /\ t[1] = "[" /\ t[Len(t)] = "]"
       THEN IF Strip(inner) = <<>> THEN [ok |-> TRUE, value |-> JsonList(<<>>)]
            ELSE IF json_loads(inner).ok
            THEN [ok |-> TRUE, value |-> JsonList(<<json_loads(inner).value>>)]
            ELSE failed
       ELSE failed

\* a field of a returned dict: None or the text as the column holds it, or the
\* object json.loads made of the text
AsStored(column) ==
    [form |-> IF column.null THEN "None" ELSE "str", text |-> column.text,
     value |-> JsonNull]
Parsed(value) == [form |-> "json", text |-> <<>>, value |-> value]

\* if d.get(key): a NULL and an empty text are not looked at
Looked(column) == ~column.null /\ column.text # <<>>

\* try: d[key] = json.loads(d[key]) / except json.JSONDecodeError: pass
\* what the field is afterwards
Deserialized(column) ==
    IF Looked(column) /\ json_loads(column.text).ok
    THEN Parsed(json_loads(column.text).value)
    ELSE AsStored(column)

\* what json.loads raises for the field
DecodeError(column) ==
    IF Looked(column) /\ ~json_loads(column.text).ok THEN "JSONDecodeError" ELSE "none"

\* except json.JSONDecodeError: pass
Passed(error) == "none"

\* the schema and the example of a row of request_bodies or response_bodies,
\* each in a try of its own
Body(row) ==
    [status_code |-> row.status_code,
     schema |-> Deserialized(row.schema),
     example |-> Deserialized(row.example)]

\* the first error that got past the except clauses of the rows, schema before
\* example
RECURSIVE BodyErrors(_)
BodyErrors(rows) ==
    IF rows = <<>> THEN "none"
    ELSE IF Passed(DecodeError(Head(rows).schema)) # "none"
    THEN Passed(DecodeError(Head(rows).schema))
    ELSE IF Passed(DecodeError(Head(rows).example)) # "none"
    THEN Passed(DecodeError(Head(rows).example))
    ELSE BodyErrors(Tail(rows))

\* get_endpoint_details(endpoint_id), all of it: {} when there is no such
\* endpoint; else the row, its request body if it has one (fetchone) and its
\* response bodies in the order the storage yields them; the parameters are
\* copied as they are stored and left out here.  A storage failure is wrapped
\* in Exception; anything else the with block raises leaves as it is.
endpoint_details(p, endpoint_id, fault) ==
    LET a == [NoArgs EXCEPT !.query_id = endpoint_id]
        found == { r \in endpoints : r.id = endpoint_id }
        requests == { b \in request_bodies : b.endpoint_id = endpoint_id }
        responses == { b \in response_bodies : b.endpoint_id = endpoint_id }
        done(value, error) ==
            /\ Started
            /\ last' = [op |-> "get_endpoint_details", args |-> a,
                        ret |-> IF error = "none" THEN value ELSE RetNone,
                        err |-> error,
                        session |-> get_session(endpoints, endpoints, error).ended,
                        tiers |-> <<>>]
            /\ sessions' = [sessions EXCEPT ![p] = @ + Unclosed(1, error)]
            /\ UNCHANGED <<saved_queries, id_seq, clock, pc, args, loaded,
                           current_timestamp, applied, catalog_vars, server_vars>>
    IN IF fault # "none" THEN done(RetNone, Wrapped(fault))
       ELSE IF found = {} THEN done(RetList(<<>>), "none")
       ELSE \E request \in IF requests = {} THEN { <<>> }
                           ELSE { <<b>> : b \in requests },
               rows \in Scans(responses) :
                done(RetDict([endpoint |-> get_endpoint_details(endpoint_id),
                              request_body |-> [i \in DOMAIN request |-> Body(request[i])],
                              response_bodies |-> [i \in DOMAIN rows |-> Body(rows[i])]]),
                     BodyErrors(request \o rows))

(* ------------------------------ system --------------------------------- *)
\* The table outlives the process: at start it is empty or holds what an earlier
\* run saved.  A row left by one save_query call:
EarlierRow ==
    SavedQuery(1, <<"a">>, <<"/", "a">>, "GET", "null", "{d}", 0, NewUsageCount)

Init ==
    /\ saved_queries \in { {}, {EarlierRow} }
    /\ id_seq = Cardinality(saved_queries) + 1
    /\ clock = 0
    /\ pc = [p \in Procs |-> "idle"]
    /\ args = [p \in Procs |-> NoArgs]
    /\ loaded = [p \in Procs |-> {}]
    /\ current_timestamp = [p \in Procs |-> 0]
    /\ last = NoCall
    /\ calls = 0
    /\ applied = [i \in Ids |-> IF ById(i) = {} THEN 0 ELSE NewUsageCount]
    /\ sessions = [p \in Procs |-> 0]
    /\ endpoints = {}
    /\ request_bodies = {}
    /\ response_bodies = {}
    /\ known_segments_cache = {}
    /\ has_cache = FALSE
    /\ current_query_from_cached_queries = FALSE
    /\ proxied = <<>>

Next ==
    \/ Tick
    \/ \E p \in Procs, path \in Paths, method \in Methods, v \in Payloads,
           fault \in Faults :
            save_query_select(p, v.description, path, method, v.params, v.data, fault)
    \/ \E p \in Procs, fault \in Faults : save_query_flush(p, fault)
    \/ \E p \in Procs, path \in Paths, method \in Methods, fault \in Faults :
            find_query(p, path, method, fault)
    \/ \E p \in Procs, search_term \in Terms, fault \in Faults :
            search_queries(p, search_term, fault)
    \/ \E p \in Procs, fault \in Faults : get_all_queries(p, fault)
    \/ \E p \in Procs, query_id \in Ids, fault \in Faults :
            increment_usage(p, query_id, fault)
    \/ \E p \in Procs, query_id \in Ids, fault \in Faults :
            delete_query(p, query_id, fault)
    \/ \E p \in Procs, fault \in Faults : clear_all(p, fault)

Spec == Init /\ [][Next]_vars

(* ------------------------------ search alone --------------------------- *)
\* search_queries applied once to a table that earlier calls have filled.
MaxTermLen == 2

Alphabet == { "a", "B", "_", "%", "\\" }
SearchTerms == UNION { [1..n -> Alphabet] : n \in 0..MaxTermLen }

SearchPaths == << <<"/", "a">>, <<"/", "B">>, <<"/", "a", "b">> >>
SearchDescriptions == { <<"a", "B">>, <<"b", "_">>, <<"%">> }
SearchUsages == { 1, 2 }
SearchTimes == { 0, 1 }

\* tables of up to three rows, one per path, ids in order of insertion
SearchTables ==
    { { SavedQuery(i, d[i], SearchPaths[i], "GET", "null", "null", t[i], u[i]) :
          i \in present } :
        present \in SUBSET DOMAIN SearchPaths,
        d \in [DOMAIN SearchPaths -> SearchDescriptions],
        t \in [DOMAIN SearchPaths -> SearchTimes],
        u \in [DOMAIN SearchPaths -> SearchUsages] }

InitSearch ==
    /\ saved_queries \in SearchTables
    /\ id_seq = Len(SearchPaths) + 1
    /\ clock = 1
    /\ pc = [p \in Procs |-> "idle"]
    /\ args = [p \in Procs |-> NoArgs]
    /\ loaded = [p \in Procs |-> {}]
    /\ current_timestamp = [p \in Procs |-> 0]
    /\ last = NoCall
    /\ calls = 0
    /\ applied = [i \in Ids |-> IF ById(i) = {} THEN 0
                                ELSE (CHOOSE r \in ById(i) : TRUE).usage_count]
    /\ sessions = [p \in Procs |-> 0]
    /\ endpoints = {}
    /\ request_bodies = {}
    /\ response_bodies = {}
    /\ known_segments_cache = {}
    /\ has_cache = FALSE
    /\ current_query_from_cached_queries = FALSE
    /\ proxied = <<>>

NextSearch ==
    \E p \in Procs, search_term \in SearchTerms :
        last.op = "" /\ search_queries(p, search_term, "none")

SpecSearch == InitSearch /\ [][NextSearch]_vars

(* ------------------------------ paths alone ---------------------------- *)
\* _normalize_path and _convert_to_generic_pattern applied once to a text.
MaxPathLen == 7

PathAlphabet == { "/", "a", "b", " " }
NormalizeInputs == UNION { [1..n -> PathAlphabet] : n \in 0..MaxPathLen }

PatternAlphabet == { "/", "a", "{", "}" }
PatternInputs == UNION { [1..n -> PatternAlphabet] : n \in 0..MaxPathLen }

normalize(path) ==
    /\ last' = [NoCall EXCEPT !.op = "_normalize_path",
                              !.args = [NoArgs EXCEPT !.path = path],
                              !.ret = RetStr(_normalize_path(path))]
    /\ UNCHANGED <<saved_queries, id_seq, clock, pc, args, loaded,
                   current_timestamp, calls, applied, sessions, catalog_vars, server_vars>>

genericize(path) ==
    /\ last' = [NoCall EXCEPT !.op = "_convert_to_generic_pattern",
                              !.args = [NoArgs EXCEPT !.path = path],
                              !.ret = RetStr(_convert_to_generic_pattern(path))]
    /\ UNCHANGED <<saved_queries, id_seq, clock, pc, args, loaded,
                   current_timestamp, calls, applied, sessions, catalog_vars, server_vars>>

InitPath ==
    /\ saved_queries = {}
    /\ id_seq = 1
    /\ clock = 0
    /\ pc = [p \in Procs |-> "idle"]
    /\ args = [p \in Procs |-> NoArgs]
    /\ loaded = [p \in Procs |-> {}]
    /\ current_timestamp = [p \in Procs |-> 0]
    /\ last = NoCall
    /\ calls = 0
    /\ applied = [i \in Ids |-> 0]
    /\ sessions = [p \in Procs |-> 0]
    /\ endpoints = {}
    /\ request_bodies = {}
    /\ response_bodies = {}
    /\ known_segments_cache = {}
    /\ has_cache = FALSE
    /\ current_query_from_cached_queries = FALSE
    /\ proxied = <<>>

NextPath ==
    \/ last.op = "" /\ \E path \in NormalizeInputs : normalize(path)
    \/ last.op = "" /\ \E path \in PatternInputs : genericize(path)

SpecPath == InitPath /\ [][NextPath]_vars

(* ------------------------------ catalog alone -------------------------- *)
\* The catalog is filled by the importer before the server starts and only read
\* afterwards: find_endpoint_by_path_method against a table that stays as it is.
MaxCatalog == 2

\* what the importer stores as method: the lowercase key of the OpenAPI
\* operation
Get == <<"g", "e", "t">>
Post == <<"p", "o", "s", "t">>

\* rows the importer can have stored, the id being the position
CatalogRows ==
    << Endpoint(1, <<"/", "t", "/", "{", "i", "d", "}">>, Get),
       Endpoint(2, <<"/", "t", "/", "{", "x", "}">>, Get),
       Endpoint(3, <<"/", "a", "_", "b">>, Get),
       Endpoint(4, <<"/", "a", "x", "b">>, Get),
       Endpoint(5, <<"/", "t", "/", "1", "2">>, Get),
       Endpoint(6, <<"/", "t", "/", "{", "i", "d", "}">>, Post) >>

Catalogs ==
    { { CatalogRows[i] : i \in present } :
        present \in { s \in SUBSET DOMAIN CatalogRows : Cardinality(s) <= MaxCatalog } }

\* the tools of the server run on its one event loop and call the catalog reader
\* without awaiting: one caller, one call at a time
MainThread == 1

\* paths and methods a caller of execute_api_call passes
CallerPaths ==
    { <<"/", "t", "/", "{", "x", "}">>,
      <<"/", "t", "/", "{", "p", "a", "r", "a", "m", "}">>,
      <<"/", "a", "_", "b">>,
      <<"/", "t", "/", "1", "2">>,
      <<"/", "t", "/", "7">>,
      <<"/", "T", "/", "{", "I", "D", "}", "/">> }

CallerMethods == { Get, <<"P", "O", "S", "T">> }

InitResolve ==
    /\ saved_queries = {}
    /\ id_seq = 1
    /\ clock = 0
    /\ pc = [p \in Procs |-> "idle"]
    /\ args = [p \in Procs |-> NoArgs]
    /\ loaded = [p \in Procs |-> {}]
    /\ current_timestamp = [p \in Procs |-> 0]
    /\ last = NoCall
    /\ calls = 0
    /\ applied = [i \in Ids |-> 0]
    /\ sessions = [p \in Procs |-> 0]
    /\ endpoints \in Catalogs
    /\ request_bodies = {}
    /\ response_bodies = {}
    /\ known_segments_cache = {}
    /\ has_cache = FALSE
    /\ current_query_from_cached_queries = FALSE
    /\ proxied = <<>>

NextResolve ==
    \/ \E path \in CallerPaths, method \in CallerMethods, fault \in CatalogFaults :
            find_endpoint_by_path_method(MainThread, path, method, fault)
    \/ \E path \in CallerPaths, fault \in { "none", "lookup" } :
            parameterize(MainThread, _normalize_path(path), fault)

SpecResolve == InitResolve /\ [][NextResolve]_vars

(* ------------------------------ segments alone ------------------------- *)
\* _convert_segment_to_parameter applied once to a segment.
MaxSegmentLen == 4

SegmentAlphabet == { "1", "a", "B", "-", "_", "." }

\* a text of n characters: the head, then the filler repeated
Padded(head, filler, n) ==
    [i \in 1..n |-> IF i <= Len(head) THEN head[i] ELSE filler]

\* a text of the shape 8-4-4-4-12 with `c` in every other place
UuidShaped(c) == [i \in 1..36 |-> IF i \in { 9, 14, 19, 24 } THEN "-" ELSE c]

\* short segments of every form, and long ones around the lengths 8, 10 and 36
\* that the tests look at
Segments ==
    UNION { [1..n -> SegmentAlphabet] : n \in 1..MaxSegmentLen }
    \cup { Padded(head, filler, n) :
             head \in { <<"a">>, <<"1">>, <<"a", "1">>, <<"a", ".">>, <<"a", "_">> },
             filler \in { "a", "1" },
             n \in { 7, 8, 9, 10 } }
    \cup { UuidShaped("a"), UuidShaped("1"), UuidShaped("g"), UuidShaped(".") }

SegmentCatalogs == { {}, { CatalogRows[5] }, { CatalogRows[3], CatalogRows[5] } }

InitSegment ==
    /\ saved_queries = {}
    /\ id_seq = 1
    /\ clock = 0
    /\ pc = [p \in Procs |-> "idle"]
    /\ args = [p \in Procs |-> NoArgs]
    /\ loaded = [p \in Procs |-> {}]
    /\ current_timestamp = [p \in Procs |-> 0]
    /\ last = NoCall
    /\ calls = 0
    /\ applied = [i \in Ids |-> 0]
    /\ sessions = [p \in Procs |-> 0]
    /\ endpoints \in SegmentCatalogs
    /\ request_bodies = {}
    /\ response_bodies = {}
    /\ known_segments_cache = {}
    /\ has_cache = FALSE
    /\ current_query_from_cached_queries = FALSE
    /\ proxied = <<>>

NextSegment ==
    last.op = "" /\ \E segment \in Segments, fault \in { "none", "lookup" } :
                        classify(MainThread, segment, fault)

SpecSegment == InitSegment /\ [][NextSegment]_vars

(* ------------------------------ search tiers alone ---------------------- *)
\* The three catalog searches, each called once in every environment.
\* the queries a caller passes: empty, blank, a stopword, a word too short, a
\* keyword, and a stopword with a keyword in capitals
Queries ==
    { <<>>, <<" ", " ">>, <<"t", "h", "e">>, <<"a", "b">>,
      <<"t", "a", "g">>, <<"T", "h", "e", " ", "T", "A", "G">> }

InitTiers ==
    /\ saved_queries = {}
    /\ id_seq = 1
    /\ clock = 0
    /\ pc = [p \in Procs |-> "idle"]
    /\ args = [p \in Procs |-> NoArgs]
    /\ loaded = [p \in Procs |-> {}]
    /\ current_timestamp = [p \in Procs |-> 0]
    /\ last = NoCall
    /\ calls = 0
    /\ applied = [i \in Ids |-> 0]
    /\ sessions = [p \in Procs |-> 0]
    /\ endpoints = {}
    /\ request_bodies = {}
    /\ response_bodies = {}
    /\ known_segments_cache = {}
    /\ has_cache = FALSE
    /\ current_query_from_cached_queries = FALSE
    /\ proxied = <<>>

NextTiers ==
    /\ last.op = ""
    /\ \E env \in Environments :
           \/ \E query \in Queries : search_endpoints(MainThread, query, env)
           \/ \E query \in Queries, limit \in Limits :
                  search_by_natural_language(MainThread, query, limit, env)
           \/ \E query \in Queries, limit \in Limits, include_highlights \in BOOLEAN :
                  advanced_search(MainThread, query, limit, include_highlights, env)

SpecTiers == InitTiers /\ [][NextTiers]_vars

(* ------------------------------ proxy alone ---------------------------- *)
\* The server's tasks calling execute_api_call on one event loop, with the
\* saved queries deleted and cleared in between; /a is documented, /B is not.
ProxyCatalog == { Endpoint(1, <<"/", "a">>, Get) }

InitProxy ==
    /\ saved_queries = {}
    /\ id_seq = 1
    /\ clock = 0
    /\ pc = [p \in Procs |-> "idle"]
    /\ args = [p \in Procs |-> NoArgs]
    /\ loaded = [p \in Procs |-> {}]
    /\ current_timestamp = [p \in Procs |-> 0]
    /\ last = NoCall
    /\ calls = 0
    /\ applied = [i \in Ids |-> 0]
    /\ sessions = [p \in Procs |-> 0]
    /\ endpoints = ProxyCatalog
    /\ request_bodies = {}
    /\ response_bodies = {}
    /\ known_segments_cache = {}
    /\ has_cache = FALSE
    /\ current_query_from_cached_queries = FALSE
    /\ proxied = <<>>

NextProxy ==
    \/ Tick
    \/ \E p \in Procs, path \in Paths, method \in Methods, v \in Payloads,
           fault \in ProxyFaults \ { "save_query" }, catalog_fault \in { "none", "exact" } :
            execute_api_call(p, path, method, v.params, v.data, fault, catalog_fault)
    \/ \E p \in Procs, response \in Responses, fault \in { "none", "save_query" } :
            execute_api_call_resumed(p, response, fault)
    \/ \E p \in Procs, query_id \in Ids : delete_query(p, query_id, "none")
    \/ \E p \in Procs : clear_all(p, "none")

SpecProxy == InitProxy /\ [][NextProxy]_vars

(* ------------------------------ proxy on a filled store ----------------- *)
\* The same tasks on a server that starts with the row an earlier run saved
\* for /a; the catalog documents /a and /b, which a caller's /B matches.
WarmCatalog == ProxyCatalog \cup { Endpoint(2, <<"/", "b">>, Get) }

InitWarm ==
    /\ saved_queries = { EarlierRow }
    /\ id_seq = 2
    /\ clock = 0
    /\ pc = [p \in Procs |-> "idle"]
    /\ args = [p \in Procs |-> NoArgs]
    /\ loaded = [p \in Procs |-> {}]
    /\ current_timestamp = [p \in Procs |-> 0]
    /\ last = NoCall
    /\ calls = 0
    /\ applied = [i \in Ids |-> IF ById(i) = {} THEN 0 ELSE NewUsageCount]
    /\ sessions = [p \in Procs |-> 0]
    /\ endpoints = WarmCatalog
    /\ request_bodies = {}
    /\ response_bodies = {}
    /\ known_segments_cache = {}
    /\ has_cache = FALSE
    /\ current_query_from_cached_queries = FALSE
    /\ proxied = <<>>

SpecWarm == InitWarm /\ [][NextProxy]_vars

(* ------------------------------ known segments alone ------------------- *)
\* Callers of _is_known_path_segment on one APIDatabase, their statements
\* interleaved, the catalog left as it is.
\* a component of a catalog path, the beginning of one, and neither
KnownSegments == { <<"t">>, <<"1">>, <<>> }

KnownCatalogs == { { CatalogRows[5] } }

InitKnown ==
    /\ saved_queries = {}
    /\ id_seq = 1
    /\ clock = 0
    /\ pc = [p \in Procs |-> "idle"]
    /\ args = [p \in Procs |-> NoArgs]
    /\ loaded = [p \in Procs |-> {}]
    /\ current_timestamp = [p \in Procs |-> 0]
    /\ last = NoCall
    /\ calls = 0
    /\ applied = [i \in Ids |-> 0]
    /\ sessions = [p \in Procs |-> 0]
    /\ endpoints \in KnownCatalogs
    /\ request_bodies = {}
    /\ response_bodies = {}
    /\ known_segments_cache = {}
    /\ has_cache = FALSE
    /\ current_query_from_cached_queries = FALSE
    /\ proxied = <<>>

NextKnown ==
    \/ \E p \in Procs, segment \in KnownSegments : known_entered(p, segment)
    \/ \E p \in Procs : known_cache_created(p)
    \/ \E p \in Procs : known_membership(p)
    \/ \E p \in Procs : known_read(p)
    \/ \E p \in Procs, lookup_fails \in BOOLEAN : known_queried(p, lookup_fails)
    \/ \E p \in Procs : known_stored(p)

SpecKnown == InitKnown /\ [][NextKnown]_vars

(* ------------------------------ templates alone ------------------------- *)
\* find_endpoint_by_path_method called once with a path made from a catalog
\* template by putting a value in the place of each placeholder.
Values == { <<"7">>, <<"1">>, <<"1", "2">> }

\* the segment is a {placeholder}
IsPlaceholder(segment) ==
    segment # <<>> /\ PlaceholderInSegmentAt(segment) = Len(segment)

\* the template with the value in the place of each placeholder
Fill(template, value) ==
    LET segments == Split(template, "/")
    IN Join([i \in DOMAIN segments |->
                IF IsPlaceholder(segments[i]) THEN value ELSE segments[i]], "/")

InitTemplate ==
    /\ saved_queries = {}
    /\ id_seq = 1
    /\ clock = 0
    /\ pc = [p \in Procs |-> "idle"]
    /\ args = [p \in Procs |-> NoArgs]
    /\ loaded = [p \in Procs |-> {}]
    /\ current_timestamp = [p \in Procs |-> 0]
    /\ last = NoCall
    /\ calls = 0
    /\ applied = [i \in Ids |-> 0]
    /\ sessions = [p \in Procs |-> 0]
    /\ endpoints \in Catalogs
    /\ request_bodies = {}
    /\ response_bodies = {}
    /\ known_segments_cache = {}
    /\ has_cache = FALSE
    /\ current_query_from_cached_queries = FALSE
    /\ proxied = <<>>

NextTemplate ==
    /\ last.op = ""
    /\ \E r \in endpoints, value \in Values, fault \in CatalogFaults :
           \E method \in { r.method, Upper(r.method) } :
               find_endpoint_by_path_method(MainThread, Fill(r.path, value), method, fault)

SpecTemplate == InitTemplate /\ [][NextTemplate]_vars

(* ------------------------------ hydration alone ------------------------- *)
\* get_endpoint_details called once for an endpoint whose bodies hold every
\* combination of stored texts.
MaxResponses == 1

\* what the schema and example columns hold: NULL, the empty text, '{}',
\* '[ 7 ]', and the unparseable '{' and 'nul'
Columns ==
    { Null, Text(<<>>), Text(<<"{", "}">>), Text(<<"[", " ", "7", " ", "]">>),
      Text(<<"{">>), Text(<<"n", "u", "l">>) }

StatusCodes == <<"200", "404", "500">>

BodyRows(status_code) ==
    { [endpoint_id |-> 1, status_code |-> status_code, schema |-> s, example |-> e] :
        s \in Columns, e \in Columns }

\* the response bodies of the endpoint: one row per status code, for the first
\* n codes
RECURSIVE ResponseTables(_)
ResponseTables(n) ==
    IF n = 0 THEN { {} }
    ELSE ResponseTables(n - 1)
           \cup { t \cup { b } : t \in { u \in ResponseTables(n - 1) : Cardinality(u) = n - 1 },
                                 b \in BodyRows(StatusCodes[n]) }

InitHydrate ==
    /\ saved_queries = {}
    /\ id_seq = 1
    /\ clock = 0
    /\ pc = [p \in Procs |-> "idle"]
    /\ args = [p \in Procs |-> NoArgs]
    /\ loaded = [p \in Procs |-> {}]
    /\ current_timestamp = [p \in Procs |-> 0]
    /\ last = NoCall
    /\ calls = 0
    /\ applied = [i \in Ids |-> 0]
    /\ sessions = [p \in Procs |-> 0]
    /\ endpoints = { CatalogRows[1] }
    /\ request_bodies \in { {} } \cup { { b } : b \in BodyRows("") }
    /\ response_bodies \in ResponseTables(MaxResponses)
    /\ known_segments_cache = {}
    /\ has_cache = FALSE
    /\ current_query_from_cached_queries = FALSE
    /\ proxied = <<>>

NextHydrate ==
    /\ last.op = ""
    /\ \E endpoint_id \in { 1, 2 }, fault \in Faults :
           endpoint_details(MainThread, endpoint_id, fault)

SpecHydrate == InitHydrate /\ [][NextHydrate]_vars

(* ------------------------------ one resolution -------------------------- *)
\* find_endpoint_by_path_method called once, on a fresh reader, with every
\* caller path and method against every catalog.
NextResolveOnce ==
    /\ last.op = ""
    /\ \E path \in CallerPaths, method \in CallerMethods, fault \in CatalogFaults :
           find_endpoint_by_path_method(MainThread, path, method, fault)

SpecResolveOnce == InitResolve /\ [][NextResolveOnce]_vars

(* ------------------------------ properties ----------------------------- *)
\* the rows of a table state that carry the pair (path, method)
RowsOf(rows, path, method) == { r \in rows : r.path = path /\ r.method = method }

\* usage_count of the pair's row in a table state, 0 when the pair has no row
UsageOf(rows, path, method) ==
    IF RowsOf(rows, path, method) = {} THEN 0
    ELSE (CHOOSE r \in RowsOf(rows, path, method) : TRUE).usage_count

\* caller p is inside save_query for (path, method)
Saving(p, path, method) ==
    pc[p] = "save_selected" /\ args[p].path = path /\ args[p].method = method

\* the row caller p's save_query loaded has been deleted since
LoadedRowRemoved(p) == \E r \in loaded[p] : ById(r.id) = {}

\* C1: whenever a save_query running beside other save_query calls on its
\* (path, method) completes (no delete_query or clear_all having removed its
\* row meanwhile), it completes without error and leaves exactly one row for the
\* pair whose usage_count is one more than just before (1 when the pair had no
\* row): k concurrent saves raise the count by exactly k and none is lost.
C1_ConcurrentSavesAllCounted ==
    [][\A p \in Procs, path \in Paths, method \in Methods :
        (Saving(p, path, method) /\ ~LoadedRowRemoved(p) /\ save_query_flush(p, "none")) =>
            /\ last'.err = "none"
            /\ Cardinality(RowsOf(saved_queries', path, method)) = 1
            /\ UsageOf(saved_queries', path, method) =
                   UsageOf(saved_queries, path, method) + 1]_vars

\* C2: a save_query whose (path, method) nobody else touched since its SELECT
\* (the sequential case): with no row for the pair it inserts one row with
\* usage_count = 1 under a fresh id and returns that id; with a row it keeps the
\* row's id, overwrites description, params and data with the call's values,
\* raises usage_count by exactly 1 and returns the existing id.  Either way the
\* pair then has exactly one row, holding the call's values.
C2_SaveUpserts ==
    [][\A p \in Procs, path \in Paths, method \in Methods :
        (/\ Saving(p, path, method)
         /\ loaded[p] = RowsOf(saved_queries, path, method)
         /\ save_query_flush(p, "none")) =>
            /\ last'.err = "none"
            /\ last'.ret.kind = "int"
            /\ \E r \in saved_queries' :
                /\ RowsOf(saved_queries', path, method) = {r}
                /\ r.id = last'.ret.n
                /\ r.description = args[p].description
                /\ r.params = args[p].params
                /\ r.data = args[p].data
                /\ IF loaded[p] = {}
                   THEN r.usage_count = 1 /\ ById(r.id) = {}
                   ELSE \E old \in loaded[p] :
                           r.id = old.id /\ r.usage_count = old.usage_count + 1
            /\ \A r \in saved_queries :
                   (r.path # path \/ r.method # method) => r \in saved_queries']_vars

\* C2 happens: a third save in a row on one pair has left usage_count = 3
C2_Witness ==
    /\ last.op = "save_query" /\ last.err = "none"
    /\ \E r \in saved_queries :
        /\ r.id = last.ret.n /\ r.usage_count = 3
        /\ r.description = last.args.description
    /\ \A p \in Procs : pc[p] = "idle"

\* C3: in every reachable state the table holds at most one row for each
\* (path, method) pair.
C3_PathMethodUnique ==
    \A r1, r2 \in saved_queries :
        (r1.path = r2.path /\ r1.method = r2.method) => r1 = r2

\* C3 happens: a second INSERT for a pair was attempted and refused
C3_Witness == last.op = "save_query" /\ last.err = "IntegrityError"

\* C4: as long as a row (by id) exists its usage_count never decreases,
\* whatever call takes the step.
C4_UsageMonotonic ==
    [][\A r \in saved_queries : \A r2 \in saved_queries' :
          r2.id = r.id => r2.usage_count >= r.usage_count]_vars

\* C4 happens: a row counted by a save, then again by save and increment
C4_Witness ==
    /\ last.op = "increment_usage" /\ last.err = "none"
    /\ \E r \in saved_queries : r.id = last.args.query_id /\ r.usage_count >= 3

\* C5: every row's usage_count equals the number of committed statements that
\* counted a use of it (the INSERT, each save_query UPDATE, each
\* increment_usage), under every interleaving: no increment is lost.
C5_NoIncrementLost ==
    \A r \in saved_queries : r.usage_count = applied[r.id]

\* C5 happens: increment_usage ran on a row between the SELECT and the UPDATE
\* of a save_query on that same row
C5_Witness ==
    /\ last.op = "increment_usage" /\ last.err = "none"
    /\ \E p \in Procs : \E old \in loaded[p] : \E r \in saved_queries :
        /\ pc[p] = "save_selected"
        /\ r.id = old.id /\ r.id = last.args.query_id
        /\ r.usage_count > old.usage_count

\* C6: delete_query(id) removes the row with that id and returns a true value
\* exactly when that row existed before the call; with no such row it returns
\* a false value and leaves the table unchanged.
C6_DeleteReportsExistence ==
    [][\A p \in Procs, query_id \in Ids :
        delete_query(p, query_id, "none") =>
            /\ Truthy(last'.ret) <=> (ById(query_id) # {})
            /\ \A r \in saved_queries' : r.id # query_id
            /\ (ById(query_id) = {}) => saved_queries' = saved_queries]_vars

\* C7: increment_usage on an id that has no row raises nothing and leaves
\* every row as it was.
C7_IncrementAbsentIsNoOp ==
    [][\A p \in Procs, query_id \in Ids :
        (ById(query_id) = {} /\ increment_usage(p, query_id, "none")) =>
            /\ last'.err = "none"
            /\ saved_queries' = saved_queries]_vars

\* C7 happens: increment_usage has run on an id no row carries while rows exist
C7_Witness ==
    /\ last.op = "increment_usage" /\ last.err = "none"
    /\ ById(last.args.query_id) = {}
    /\ last.args.query_id >= id_seq
    /\ saved_queries # {}

\* C8: find_query changes no row, on a hit and on a miss.
C8_FindReadOnly ==
    [][\A p \in Procs, path \in Paths, method \in Methods :
        (\E fault \in Faults : find_query(p, path, method, fault)) =>
            saved_queries' = saved_queries]_vars

\* C8 happens: find_query has returned a row
C8_Witness ==
    /\ last.op = "find_query"
    /\ Truthy(last.ret)
    /\ \E r \in saved_queries : last.ret.rows = <<r>>

\* C9: clear_all removes every row and returns how many there were; a listing
\* that follows it directly is empty.
C9_ClearAllEmpties ==
    [][\A p \in Procs :
        /\ clear_all(p, "none") =>
              /\ saved_queries' = {}
              /\ last'.ret = RetInt(Cardinality(saved_queries))
        /\ (last.op = "clear_all" /\ last.err = "none"
               /\ get_all_queries(p, "none")) =>
              last'.ret = RetList(<<>>)]_vars

\* C9 happens: clear_all has removed two rows
C9_Witness ==
    /\ last.op = "clear_all" /\ last.err = "none"
    /\ last.ret.n >= 2 /\ saved_queries = {}

\* t occurs in s as a run of consecutive characters
Contains(s, t) ==
    \E i \in 0..(Len(s) - Len(t)) : SubSeq(s, i + 1, i + Len(t)) = t

\* the row's description or path contains the term, letter case ignored
MatchesTerm(r, term) ==
    \/ Contains(Lower(r.description), Lower(term))
    \/ Contains(Lower(r.path), Lower(term))

\* what search_queries returned is exactly the rows containing the term, each
\* once, by usage_count descending and then timestamp descending
SearchedBySubstring ==
    /\ { last.ret.rows[i] : i \in DOMAIN last.ret.rows } =
           { r \in saved_queries : MatchesTerm(r, last.args.search_term) }
    /\ \A i, j \in DOMAIN last.ret.rows : i # j => last.ret.rows[i] # last.ret.rows[j]
    /\ OrderedByUsage(last.ret.rows)

\* C10: search_queries(term) returns exactly the rows whose description or path
\* contains term case-insensitively, ordered by usage_count descending and,
\* among equal counts, by timestamp descending; the empty term returns every
\* row in that order.
C10_SearchIsSubstringMatch ==
    last.op = "search_queries" => SearchedBySubstring

\* the term holds none of the characters LIKE reads as wildcard or escape
LiteralTerm(term) ==
    \A i \in DOMAIN term : term[i] \notin { "%", "_", "\\" }

\* For terms free of %, _ and backslash the result of search_queries is the
\* substring match in the stated order (what C10 says, for those terms).
SearchLiteralTermIsSubstringMatch ==
    (last.op = "search_queries" /\ LiteralTerm(last.args.search_term)) =>
        SearchedBySubstring

\* caller p takes a step of save_query, increment_usage, delete_query or
\* clear_all in which the storage answers with `fault`
WriteStep(p, fault) ==
    \/ \E path \in Paths, method \in Methods, v \in Payloads :
          save_query_select(p, v.description, path, method, v.params, v.data, fault)
    \/ save_query_flush(p, fault)
    \/ \E query_id \in Ids : increment_usage(p, query_id, fault)
    \/ \E query_id \in Ids : delete_query(p, query_id, fault)
    \/ clear_all(p, fault)

\* C11: when the storage fails during save_query, increment_usage, delete_query
\* or clear_all, the call raises that error and returns nothing, and whenever
\* such a call ends with an error (a storage failure, a refused INSERT, an
\* UPDATE that matched no row) the step leaves every row as it was.
C11_FailedWriteRaisesAndChangesNothing ==
    [][/\ \A p \in Procs, fault \in Faults \ { "none" } :
            (last'.err = fault /\ last'.ret = RetNone) \/ ~WriteStep(p, fault)
       /\ ( /\ last'.op \in { "save_query", "increment_usage", "delete_query",
                              "clear_all" }
            /\ last'.err # "none" ) => saved_queries' = saved_queries]_vars

\* C11 happens: the storage failed during a save_query on an existing row, and
\* the row still holds the earlier description
C11_Witness ==
    /\ last.op = "save_query" /\ last.err = "OperationalError"
    /\ \E r \in saved_queries :
        /\ r.path = last.args.path /\ r.method = last.args.method
        /\ r.description # last.args.description
    /\ \A p \in Procs : pc[p] = "idle"

C19_NormalizedShape ==
    (last.op = "_normalize_path") =>
        LET path == last.args.path
            r == last.ret.rows
        IN /\ r # <<>> /\ r[1] = "/"
           /\ \A i \in 1..(Len(r) - 1) : ~(r[i] = "/" /\ r[i + 1] = "/")
           /\ (r[Len(r)] = "/") => (r = <<"/">>)
           /\ (path = <<"/", "/", "a", "/", "/", "b", "/">>) =>
                  (r = <<"/", "a", "/", "b">>)
           /\ (path = <<>>) => (r = <<"/">>)
           /\ (path = <<"a">>) => (r = <<"/", "a">>)

\* C19 happens: "//a//b/" has been normalized to "/a/b"
C19_Witness ==
    /\ last.op = "_normalize_path"
    /\ last.args.path = <<"/", "/", "a", "/", "/", "b", "/">>
    /\ last.ret.rows = <<"/", "a", "/", "b">>

\* the placeholders of s as r'\{[^}]+\}' finds them, as <<first, last>> index
\* pairs: between one closing brace (or the start) and the next, the text from
\* the leftmost opening brace that has a character after it up to that
\* closing brace
Spans(s) ==
    { sp \in (DOMAIN s) \X (DOMAIN s) :
        /\ s[sp[2]] = "}"
        /\ s[sp[1]] = "{"
        /\ sp[1] + 1 < sp[2]
        /\ \A k \in sp[1]..(sp[2] - 1) : s[k] # "}"
        /\ \A i \in 1..(sp[1] - 1) :
              (s[i] = "{") => (\E k \in i..sp[1] : s[k] = "}") }

\* the positions of s outside its placeholders, and each placeholder's first
Kept(s, spans) ==
    { i \in DOMAIN s : \A sp \in spans : ~(sp[1] < i /\ i <= sp[2]) }

\* the positions of s inside a placeholder's name
InName(s, spans) ==
    { i \in DOMAIN s : \E sp \in spans : sp[1] < i /\ i < sp[2] }

\* s with every placeholder shrunk to one "#": the text around the placeholders
\* and where they stand in it
Skeleton(s) ==
    LET spans == Spans(s)
        kept == Kept(s, spans)
        firsts == { sp[1] : sp \in spans }
    IN [n \in 1..Cardinality(kept) |->
          LET i == CHOOSE k \in kept : Cardinality({ j \in kept : j < k }) = n - 1
          IN IF i \in firsts THEN "#" ELSE s[i]]

\* the texts got from s by changing one placeholder's name by one character:
\* another character in its place, or a character put in front of it
Renamed(s) ==
    LET names == InName(s, Spans(s)) IN
    { [s EXCEPT ![i] = c] : i \in names, c \in PatternAlphabet \ { "}" } }
    \cup
    { SubSeq(s, 1, i - 1) \o <<c>> \o SubSeq(s, i, Len(s)) :
        i \in names, c \in PatternAlphabet \ { "}" } }

\* C20: _convert_to_generic_pattern puts {param} in the place of every
\* {name} placeholder and leaves the text around them as it is; a path that
\* differs from the input in a placeholder name only has the same generic
\* pattern; and applying it to its own result changes nothing.
C20_GenericPattern ==
    (last.op = "_convert_to_generic_pattern") =>
        LET path == last.args.path
            g == last.ret.rows
        IN /\ Skeleton(g) = Skeleton(path)
           /\ \A sp \in Spans(g) : SubSeq(g, sp[1], sp[2]) = ParamMarker
           /\ \A q \in Renamed(path) : _convert_to_generic_pattern(q) = g
           /\ _convert_to_generic_pattern(g) = g

\* C20 happens: "{a}{aa}", two placeholders with different names, has become
\* "{param}{param}"
C20_Witness ==
    /\ last.op = "_convert_to_generic_pattern"
    /\ last.args.path = <<"{", "a", "}", "{", "a", "a", "}">>
    /\ last.ret.rows = ParamMarker \o ParamMarker


(* ------------------------------ resolving ------------------------------ *)
\* the call that ended last is a find_endpoint_by_path_method that returned
Resolved == last.op = "find_endpoint_by_path_method" /\ last.err = "none"

\* C13: for every catalog entry (path, method), find_endpoint_by_path_method
\* called with exactly that path and that method returns that entry.
C13_ExactPairResolvesToItself ==
    Resolved =>
        \A r \in endpoints :
            (r.path = last.args.path /\ r.method = last.args.method)
                => last.ret = RetDict(r)

\* A catalog pair whose path holds no LIKE wildcard resolves to itself.
ExactPairWithoutWildcardResolvesToItself ==
    Resolved =>
        \A r \in endpoints :
            ( /\ r.path = last.args.path
              /\ r.method = last.args.method
              /\ \A i \in DOMAIN r.path : r.path[i] \notin { "_", "%", "\\" } )
                => last.ret = RetDict(r)

\* the text holds a {placeholder}
HasPlaceholder(path) ==
    \E i \in DOMAIN path : PlaceholderAt(SubSeq(path, i, Len(path))) > 0

\* the catalog entries of the method whose path has the generic pattern of the
\* caller's path
Candidates(path, method) ==
    { r \in endpoints :
        /\ r.method = Lower(method)
        /\ _convert_to_generic_pattern(r.path)
             = _convert_to_generic_pattern(_normalize_path(path)) }

\* C14: caller paths that differ only in the names inside their placeholders
\* resolve to the same entry when exactly one catalog entry of the method has
\* their generic pattern: each such path, whatever its names, resolves to that
\* one entry.
C14_PlaceholderNamesDoNotMatter ==
    (Resolved /\ HasPlaceholder(last.args.path)) =>
        \A r \in endpoints :
            Candidates(last.args.path, last.args.method) = { r }
                => last.ret = RetDict(r)

\* the catalog entries of the method whose path has the generic pattern that
\* the caller's path has once its value segments are parameterized
SharingPattern(path, method) ==
    { r \in endpoints :
        /\ r.method = Lower(method)
        /\ _convert_to_generic_pattern(r.path)
             = _convert_to_generic_pattern(
                   _convert_to_parameterized_path(_normalize_path(path), {}, FALSE)) }

\* C15: when several catalog paths share the generic pattern and the method,
\* two find_endpoint_by_path_method calls with the same path and method over
\* the same catalog return the same entry, whatever order the storage yields
\* the rows in.
C15_ResolveIsDeterministic ==
    [][\A path \in CallerPaths, method \in CallerMethods :
          ( /\ Cardinality(SharingPattern(path, method)) > 1
            /\ Resolved
            /\ last.args.path = path
            /\ last.args.method = method
            /\ last'.op = "find_endpoint_by_path_method"
            /\ find_endpoint_by_path_method(MainThread, path, method, "none") )
          => last'.ret = last.ret]_vars

\* the row matches the caller's pair: same method and either the same path
\* but for case, or the generic pattern of the parameterized path
RowMatches(r, path, method) ==
    \/ r.method = Lower(method) /\ Lower(r.path) = Lower(_normalize_path(path))
    \/ r \in SharingPattern(path, method)

\* C16: find_endpoint_by_path_method returns None, without raising, exactly
\* when no catalog row of the method matches the normalized path exactly but
\* for case or by generic pattern.
C16_NotFoundExactlyWhenNoRowMatches ==
    Resolved =>
        (last.ret = RetNone
            <=> ~\E r \in endpoints : RowMatches(r, last.args.path, last.args.method))

\* The store's find_query returns None, without raising, when no row has the
\* pair.
FindQueryAbsentIsNone ==
    (last.op = "find_query" /\ last.err = "none"
        /\ ~\E r \in saved_queries :
               r.path = last.args.path /\ r.method = last.args.method)
    => last.ret = RetNone

\* the segment is a whole component of some catalog path
IsLiteralComponent(segment) ==
    \E r \in endpoints :
        \E i \in DOMAIN SegmentsOf(r.path) : SegmentsOf(r.path)[i] = segment

\* C17: _convert_to_parameterized_path leaves every segment that is a literal
\* component of some catalog path as it is, matching a heuristic or not, on
\* every call.
C17_KnownLiteralNeverParameterized ==
    (last.op = "_convert_to_parameterized_path") =>
        \A i \in DOMAIN SegmentsOf(last.args.path) :
            IsLiteralComponent(SegmentsOf(last.args.path)[i])
                => Split(last.ret.rows, "/")[i] = SegmentsOf(last.args.path)[i]

\* While the lookups reach the storage, a literal component is kept.
KnownLiteralKeptWhenLookupsSucceed ==
    [][\A path \in CallerPaths :
          parameterize(MainThread, _normalize_path(path), "none") =>
              \A i \in DOMAIN SegmentsOf(_normalize_path(path)) :
                  IsLiteralComponent(SegmentsOf(_normalize_path(path))[i])
                      => Split(last'.ret.rows, "/")[i]
                           = SegmentsOf(_normalize_path(path))[i]]_vars

\* 2 to 4 uppercase letters, a hyphen, an alphanumeric suffix
IsUpperPrefixedId(segment) ==
    \E n \in 2..4 :
        /\ Len(segment) >= n + 2
        /\ AllIn(SubSeq(segment, 1, n), UpperLetters)
        /\ segment[n + 1] = "-"
        /\ AllIn(SubSeq(segment, n + 2, Len(segment)), Letters \cup Digits)

\* the five forms that stand for a value
IsValueForm(segment) ==
    \/ IsNumericId(segment)
    \/ IsUuid(segment)
    \/ IsUpperPrefixedId(segment)
    \/ IsLongAlphanumeric(segment)
    \/ IsBase64Like(segment)

\* C18: for a segment that is no literal component of a catalog path,
\* _convert_segment_to_parameter returns '{id}' exactly when the segment has one
\* of the five forms, and the segment itself otherwise.
C18_ClassifiedByTheFiveForms ==
    (last.op = "_convert_segment_to_parameter" /\ ~IsLiteralComponent(last.args.path)) =>
        last.ret = RetStr(IF IsValueForm(last.args.path) THEN IdMarker
                          ELSE last.args.path)

\* The catalog reader leaves no session open, and its own session is committed
\* when it returns and rolled back when it raises.
CatalogSessionsScoped ==
    /\ \A p \in Procs : sessions[p] = 0
    /\ (last.op # "") =>
          last.session = (IF last.err = "none" THEN "commit" ELSE "rollback")


(* ------------------------------ searching ------------------------------ *)
\* the statements of the call that finished last which ran a ranked tier
RankedAttempts == { i \in DOMAIN last.tiers : last.tiers[i].tier \in { WebSearch, PlainTo } }

\* the statement of the call that finished last which ran the substring tier
SubstringAttempts == { i \in DOMAIN last.tiers : last.tiers[i].tier = Substring }

\* C21: search_endpoints never returns more than 50 rows, whichever tier
\* produced them and however many catalog rows match.
C21_SearchReturnsAtMostFifty ==
    (last.op = "search_endpoints" /\ last.err = "none") =>
        Len(last.ret.rows) <= SearchCap

\* The ranked tier of search_endpoints never returns more than 50 rows.
RankedSearchReturnsAtMostFifty ==
    (last.op = "search_endpoints" /\ last.err = "none" /\ SubstringAttempts = {}) =>
        Len(last.ret.rows) <= SearchCap


\* the ranked statements of the call that finished last which failed
FailedRanked == { i \in RankedAttempts : last.tiers[i].error # "none" }

\* no ranked statement of the call that finished last returned a row
NoRankedRows == \A i \in RankedAttempts : last.tiers[i].matched = 0

\* the substring statement of the call that finished last did not fail
SubstringWorking == \A i \in SubstringAttempts : last.tiers[i].error = "none"

\* what the substring tier answers: nothing when it had no keyword to look for,
\* else the first rows of its statement up to the limit
SubstringResult(limit) ==
    IF SubstringAttempts = {} THEN <<>>
    ELSE LET s == last.tiers[CHOOSE i \in SubstringAttempts : TRUE]
         IN [i \in 1..(IF s.matched <= limit THEN s.matched ELSE limit) |->
                [tier |-> Substring, rank |-> i]]

TierOrder == <<WebSearch, PlainTo, Substring>>
TierRank(tier) == CHOOSE k \in DOMAIN TierOrder : TierOrder[k] = tier

\* the statements of the call that finished last that ran a tier (not the probe)
Attempts == RankedAttempts \cup SubstringAttempts

\* the first rows, up to the limit, of the statement at position i
ResultOf(i, limit) ==
    LET s == last.tiers[i]
    IN [k \in 1..(IF s.matched <= limit THEN s.matched ELSE limit) |->
           [tier |-> s.tier, rank |-> k]]

\* C23: search_by_natural_language runs its tiers in the order
\* websearch_to_tsquery, plainto_tsquery, ILIKE; a tier runs only if every tier
\* that ran before it failed or returned no row; and the first tier that
\* returned a row is the last to run and its rows are what the call returns.
C23_TiersInOrderFirstRowsWin ==
    last.op = "search_by_natural_language" =>
        /\ \A i, j \in Attempts :
               i < j => /\ TierRank(last.tiers[i].tier) < TierRank(last.tiers[j].tier)
                        /\ last.tiers[i].matched = 0
        /\ \A i \in Attempts :
               last.tiers[i].matched > 0 =>
                   /\ \A j \in Attempts : j <= i
                   /\ last.ret = RetList(ResultOf(i, last.args.limit))

\* websearch_to_tsquery found nothing, plainto_tsquery found rows and answered,
\* and the keyword tier did not run
C23_Witness ==
    /\ last.op = "search_by_natural_language"
    /\ \E i, j \in RankedAttempts :
           /\ i < j
           /\ last.tiers[i].error = "none"
           /\ last.tiers[j].matched > 0
    /\ SubstringAttempts = {}
    /\ last.ret.rows # <<>>
    /\ last.ret.rows[1].tier = PlainTo


\* the probe of the call that finished last did not find a filled index: the
\* column is absent or empty, or the probe's query failed
ProbedWithoutIndex ==
    \E i \in DOMAIN last.tiers :
        /\ last.tiers[i].tier = "probe"
        /\ last.tiers[i].error # "none" \/ last.tiers[i].matched = 0

\* C24: when has_fulltext_search finds the index absent or unpopulated, or
\* fails, search_endpoints and search_by_natural_language run no ranked
\* statement in that call and answer from the substring statement only.
C24_NoRankedTierWithoutIndex ==
    (last.op \in { "search_endpoints", "search_by_natural_language" }
         /\ ProbedWithoutIndex) =>
        /\ RankedAttempts = {}
        /\ last.err = "none" =>
               \A k \in DOMAIN last.ret.rows : last.ret.rows[k].tier = Substring

\* the probe failed, and search_by_natural_language answered with rows of the
\* substring statement although rows matched the ranked statements
C24_Witness ==
    /\ last.op = "search_by_natural_language"
    /\ \E i \in DOMAIN last.tiers :
           last.tiers[i].tier = "probe" /\ last.tiers[i].error # "none"
    /\ RankedAttempts = {}
    /\ last.ret.rows # <<>>
    /\ last.ret.rows[1].tier = Substring

\* the index absent, search_endpoints answered with rows of the substring
\* statement
SearchWithoutIndexWitness ==
    /\ last.op = "search_endpoints"
    /\ \E i \in DOMAIN last.tiers :
           last.tiers[i].tier = "probe" /\ last.tiers[i].error = "none"
               /\ last.tiers[i].matched = 0
    /\ last.ret.rows # <<>>


\* the top ranked statement of the call that finished last failed
TopRankedFailed ==
    \E i \in RankedAttempts :
        last.tiers[i].tier = WebSearch /\ last.tiers[i].error # "none"

\* the storage answered every statement of the call that finished last: none
\* of them lost the connection
StorageReachable ==
    \A i \in DOMAIN last.tiers : last.tiers[i].error # "OperationalError"

\* C25: in advanced_search a failure of the top ranked statement is not
\* raised to the caller while the storage is reachable: the call runs the
\* looser ranked statement, then the substring statement, and returns rows of
\* one of them.
C25_TopTierFailureNotSurfaced ==
    (last.op = "advanced_search" /\ TopRankedFailed /\ StorageReachable) =>
        /\ last.err = "none"
        /\ \E i \in RankedAttempts : last.tiers[i].tier = PlainTo
        /\ \A k \in DOMAIN last.ret.rows : last.ret.rows[k].tier \in { PlainTo, Substring }

\* Once its top ranked statement has failed, advanced_search raises: the two
\* statements after it run in the aborted transaction and are refused.
AdvancedSearchRaisesAfterTopTierFailure ==
    (last.op = "advanced_search" /\ TopRankedFailed) =>
        /\ last.err = "Exception"
        /\ last.session = "rollback"
        /\ \A i \in Attempts : last.tiers[i].error # "none"

\* While no statement fails, advanced_search returns at most limit rows, from
\* the top ranked statement or, when that matched nothing, from the substring
\* statement; the looser ranked statement does not run.
AdvancedSearchWithoutFailure ==
    (last.op = "advanced_search" /\ \A i \in Attempts : last.tiers[i].error = "none") =>
        /\ last.err = "none"
        /\ Len(last.ret.rows) <= last.args.limit
        /\ \A i \in RankedAttempts : last.tiers[i].tier = WebSearch


\* the substring statement of the call that finished last failed
SubstringFailed == \E i \in SubstringAttempts : last.tiers[i].error # "none"

\* C26: in search_endpoints, search_by_natural_language and advanced_search a
\* failure of the final (substring) statement is raised to the caller; no
\* list, partial or empty, is returned in its place.
C26_FinalTierFailureRaised ==
    (last.op \in { "search_endpoints", "search_by_natural_language", "advanced_search" }
         /\ SubstringFailed) =>
        /\ last.err = "Exception"
        /\ last.ret = RetNone
        /\ last.session = "rollback"

\* the ranked statements ran without failure and found nothing, the substring
\* statement lost the connection, and search_by_natural_language raised
C26_Witness ==
    /\ last.op = "search_by_natural_language"
    /\ Cardinality(RankedAttempts) = 2
    /\ FailedRanked = {}
    /\ \E i \in SubstringAttempts : last.tiers[i].error = "OperationalError"
    /\ last.err = "Exception"

\* the same in search_endpoints and in advanced_search
FinalTierFailureWitness ==
    /\ last.op = "advanced_search"
    /\ FailedRanked = {}
    /\ \E i \in SubstringAttempts : last.tiers[i].error = "OperationalError"
    /\ last.err = "Exception"


(* ------------------------------ proxying ------------------------------- *)
\* this step belongs to a call of execute_api_call: it starts one or ends one
ProxyStep == proxied' # proxied

\* this step is the return of a call whose outbound request succeeded
SucceededStep ==
    /\ Len(proxied') = Len(proxied)
    /\ \E i \in DOMAIN proxied :
           /\ proxied[i].outcome = "pending"
           /\ proxied'[i].outcome \in { "ok", "ok_not_saved" }

\* C29: execute_api_call modifies the saved queries only after its outbound
\* request has succeeded: the steps before the request, and the return of a
\* call whose request failed or whose endpoint is not documented, leave every
\* row as it was.
C29_StoreModifiedOnlyAfterSuccess ==
    [][(ProxyStep /\ saved_queries' # saved_queries) => SucceededStep]_vars

\* A call that finds no saved query for its pair modifies the saved queries
\* only after its outbound request has succeeded.
StoreModifiedOnlyAfterSuccessOnMiss ==
    [][(/\ ProxyStep
        /\ saved_queries' # saved_queries
        /\ Len(proxied') > Len(proxied) => ~proxied'[Len(proxied')].hit) => SucceededStep]_vars

\* The saved queries are consulted before the outbound request: no request is
\* sent by a call that has not run find_query, and none when find_query raised.
ConsultedBeforeRequest ==
    \A i \in DOMAIN proxied : proxied[i].outcome = "raised" => ~proxied[i].sent


\* every call so far was a call of execute_api_call that ran alone, got its
\* response and had its statements on the store committed
SequentialSuccesses ==
    /\ calls = Len(proxied)
    /\ \A i \in DOMAIN proxied : proxied[i].outcome = "ok" /\ ~proxied[i].overlapped

\* the calls of execute_api_call made so far on a pair
CallsOn(path, method) ==
    { i \in DOMAIN proxied : proxied[i].path = path /\ proxied[i].method = method }

\* after m >= 1 successful sequential calls on a pair there is one row for it,
\* with usage_count = m
CountsSuccessfulCalls ==
    SequentialSuccesses =>
        \A path \in Paths, method \in Methods :
            CallsOn(path, method) # {} =>
                /\ Cardinality(ByPathMethod(path, method)) = 1
                /\ \A r \in ByPathMethod(path, method) :
                       r.usage_count = Cardinality(CallsOn(path, method))

\* a row that is there stays, under its id and for its pair, unless
\* delete_query or clear_all has just run
RowsOnlyDeleted ==
    (\E r \in saved_queries :
        \A r2 \in saved_queries' :
            ~(r2.id = r.id /\ r2.path = r.path /\ r2.method = r.method)) =>
        last'.op \in { "delete_query", "clear_all" }

\* C28: starting with no row for (path, method), after m >= 1 successful
\* sequential calls of execute_api_call on the pair there is exactly one row
\* for it and its usage_count is m; the first call creates the row, a repeat
\* updates it in place, and a row goes only through delete_query or clear_all.
C28_OneRowCountingSuccessfulCalls ==
    []CountsSuccessfulCalls /\ [][RowsOnlyDeleted]_vars

\* two successful calls on /a, one after the other: one row, used twice
C28_Witness ==
    /\ SequentialSuccesses
    /\ \E path \in Paths, method \in Methods :
           /\ Cardinality(CallsOn(path, method)) = 2
           /\ \E r \in ByPathMethod(path, method) : r.usage_count = 2


(* ------------------------------ memoizing ------------------------------ *)
\* this step ends a call of _is_known_path_segment that follows an earlier
\* call for the same segment
RepeatedLookupStep ==
    /\ last' # last
    /\ last.op = "_is_known_path_segment"
    /\ last'.op = "_is_known_path_segment"
    /\ last'.args.path = last.args.path

\* every value in the cache is the catalog's answer for its segment
CacheHoldsCatalogAnswers ==
    \A e \in known_segments_cache : e.known = SegmentExists(e.segment)

\* no value in the cache is replaced by a different one
CachedValuesKept ==
    \A e \in known_segments_cache, e2 \in known_segments_cache' :
        e2.segment = e.segment => e2.known = e.known

\* C27: with the catalog unchanged, every call of _is_known_path_segment for
\* the same segment returns the same answer, and under any interleaving of
\* concurrent calls, the first ones that create the cache included, every
\* value in the cache is the catalog's answer for its segment and is never
\* replaced by a different value.
C27_KnownSegmentCheckIsPure ==
    /\ []CacheHoldsCatalogAnswers
    /\ [][/\ CachedValuesKept
          /\ RepeatedLookupStep => (last'.err = "none" /\ last'.ret = last.ret)]_vars

\* Whatever the interleaving and whichever lookups fail, every value in the
\* cache is the catalog's answer for its segment and is never replaced by a
\* different value.
CacheIsSound == []CacheHoldsCatalogAnswers /\ [][CachedValuesKept]_vars

\* A call answers True only for a segment the catalog query finds: a failed
\* lookup can only turn a True into a False.
KnownOnlyWhenTheCatalogSaysSo ==
    (last.op = "_is_known_path_segment" /\ last.err = "none"
         /\ last.args.path # <<>> /\ last.ret = RetBool(TRUE)) =>
        SegmentExists(last.args.path)

\* a call raised KeyError: the cache it had found the segment in was replaced
\* by an empty one before it read the value
KnownRaisedKeyError == last.op = "_is_known_path_segment" /\ last.err = "KeyError"


(* ------------------------------ templates ------------------------------ *)
\* the catalog templates the path of the call that ended last can have been
\* made from, with a value that has one of the five forms and is no literal
\* component of a catalog path
TemplatesOfCall ==
    { r \in endpoints :
        /\ HasPlaceholder(r.path)
        /\ r.method = Lower(last.args.method)
        /\ \E value \in Values :
              /\ LooksLikeValue(value)
              /\ ~IsLiteralComponent(value)
              /\ last.args.path = Fill(r.path, value) }

\* C30: a path made from a catalog template T of method m, each placeholder
\* replaced by a value that has one of the five forms and is no literal
\* component of a catalog path, resolves to an entry of method m whose generic
\* pattern is that of T.
C30_FilledTemplateResolves ==
    (Resolved /\ TemplatesOfCall # {}) =>
        /\ last.ret.kind = "dict"
        /\ \A r \in TemplatesOfCall :
               /\ last.ret.rows[1].method = r.method
               /\ _convert_to_generic_pattern(last.ret.rows[1].path)
                    = _convert_to_generic_pattern(r.path)

\* The same while no catalog path has a component that begins with the value.
FilledTemplateResolvesUnlessPrefix ==
    (Resolved /\ TemplatesOfCall # {} /\ ~SegmentExists(SegmentsOf(last.args.path)[
                                             Len(SegmentsOf(last.args.path))])) =>
        /\ last.ret.kind = "dict"
        /\ \A r \in TemplatesOfCall :
               /\ last.ret.rows[1].method = r.method
               /\ _convert_to_generic_pattern(last.ret.rows[1].path)
                    = _convert_to_generic_pattern(r.path)

\* /t/7, made from /t/{id}, resolved to the template
FilledTemplateResolvedWitness ==
    /\ Resolved
    /\ TemplatesOfCall # {}
    /\ last.args.path = <<"/", "t", "/", "7">>
    /\ last.ret.kind = "dict"
    /\ HasPlaceholder(last.ret.rows[1].path)


(* ------------------------------ normalizing twice ---------------------- *)
\* C40: _normalize_path applied to its own result gives that result again,
\* for every input path, paths with spaces next to slashes included.
C40_NormalizeIdempotent ==
    (last.op = "_normalize_path") =>
        _normalize_path(last.ret.rows) = last.ret.rows

\* The same for the paths that hold no space.
NormalizeIdempotentWithoutSpaces ==
    (last.op = "_normalize_path" /\ \A i \in DOMAIN last.args.path :
                                        last.args.path[i] \notin Whitespace) =>
        _normalize_path(last.ret.rows) = last.ret.rows

\* "/ /" has been normalized to "/ ", which normalizes to "/"
NormalizedTwiceDiffers ==
    /\ last.op = "_normalize_path"
    /\ last.args.path = <<"/", " ", "/">>
    /\ last.ret.rows = <<"/", " ">>
    /\ _normalize_path(last.ret.rows) = <<"/">>


(* ------------------------------ whole components ----------------------- *)
\* C32: _is_known_path_segment answers True only for a segment that is a whole
\* component of some catalog path; a segment that only begins a longer
\* component is not known, and _convert_segment_to_parameter turns it into
\* '{id}' when it has one of the five forms.
C32_KnownOnlyWholeComponents ==
    /\ (last.op = "_is_known_path_segment" /\ last.err = "none"
            /\ last.ret = RetBool(TRUE)) => IsLiteralComponent(last.args.path)
    /\ (last.op = "_convert_segment_to_parameter" /\ IsValueForm(last.args.path)
            /\ ~IsLiteralComponent(last.args.path)) => last.ret = RetStr(IdMarker)

\* A segment answered as known begins some component of a catalog path.
KnownBeginsAComponent ==
    (last.op = "_is_known_path_segment" /\ last.err = "none"
         /\ last.ret = RetBool(TRUE)) =>
        \E r \in endpoints :
            \E i \in DOMAIN SegmentsOf(r.path) :
                StartsWith(SegmentsOf(r.path)[i], last.args.path)

\* '1' has been answered as known though the catalog holds only '/t/12'
KnownByPrefix ==
    /\ last.op = "_is_known_path_segment"
    /\ last.args.path = <<"1">>
    /\ last.ret = RetBool(TRUE)
    /\ ~IsLiteralComponent(<<"1">>)


(* ------------------------------ failures while resolving --------------- *)
\* the statement that `fault` makes fail is executed by a call of
\* find_endpoint_by_path_method(path, method) in the current state: the exact
\* SELECT always, a known-segment lookup when the exact match finds nothing and
\* a segment is not in the cache, the scan's SELECT when the exact match finds
\* nothing and the parameterized path holds a placeholder
FailureOccurs(path, method, fault) ==
    LET normalized_path == _normalize_path(path)
        nothing_exact == ~\E r \in endpoints :
                             ILike(r.path, normalized_path) /\ r.method = Lower(method)
        parameterized_path ==
            _convert_to_parameterized_path(normalized_path, known_segments_cache,
                                           fault = "lookup")
    IN CASE fault = "exact" -> TRUE
         [] fault = "lookup" ->
               nothing_exact
                 /\ LookedUp(SegmentSet(normalized_path), known_segments_cache) # {}
         [] fault = "scan" ->
               nothing_exact
                 /\ _convert_to_generic_pattern(parameterized_path) # parameterized_path
         [] OTHER -> FALSE

\* the step is a call find_endpoint_by_path_method(path, method) during which
\* the statement named by `fault` fails
FailedResolveStep(path, method, fault) ==
    /\ last'.op = "find_endpoint_by_path_method"
    /\ last'.args.path = path
    /\ last'.args.method = method
    /\ FailureOccurs(path, method, fault)
    /\ find_endpoint_by_path_method(MainThread, path, method, fault)

\* C33: find_endpoint_by_path_method raises when the storage fails at any
\* point of the resolution, a known-segment lookup included: it returns neither
\* an endpoint nor None after a statement of the call has failed.
C33_StorageFailureSurfaced ==
    [][\A path \in CallerPaths, method \in CallerMethods,
          fault \in { "exact", "lookup", "scan" } :
          (last'.err # "none") \/ ~FailedResolveStep(path, method, fault)]_vars

\* Failures of the call's own statements, the exact SELECT and the scan's
\* SELECT, are raised.
OwnStatementFailureSurfaced ==
    [][\A path \in CallerPaths, method \in CallerMethods, fault \in { "exact", "scan" } :
          (last'.err # "none") \/ ~FailedResolveStep(path, method, fault)]_vars

\* '/t/12' asked for with POST resolved to the template '/t/{id}' though
\* '/t/12' is a literal path of the catalog: the lookup of '12' had failed
ResolvedAfterFailedLookup ==
    /\ Resolved
    /\ last.args.path = <<"/", "t", "/", "1", "2">>
    /\ last.args.method = <<"P", "O", "S", "T">>
    /\ endpoints = { CatalogRows[5], CatalogRows[6] }
    /\ last.ret = RetDict(CatalogRows[6])
    /\ known_segments_cache = {}


(* ------------------------------ the method of the entry ---------------- *)
\* C31: find_endpoint_by_path_method never returns a catalog entry whose
\* method differs from the requested method in lower case, whether the entry
\* was found by the exact match or by the scan.
C31_ResolvedEntryHasRequestedMethod ==
    (Resolved /\ last.ret.kind = "dict") =>
        /\ last.ret.rows[1] \in endpoints
        /\ last.ret.rows[1].method = Lower(last.args.method)

\* '/t/7' asked for with POST, while the catalog holds '/t/{id}' for get and
\* for post, resolved by the scan to the post entry
C31_Witness ==
    /\ Resolved
    /\ last.args.path = <<"/", "t", "/", "7">>
    /\ last.args.method = <<"P", "O", "S", "T">>
    /\ { CatalogRows[1], CatalogRows[6] } \subseteq endpoints
    /\ last.ret = RetDict(CatalogRows[6])

\* '/t/12' asked for with GET resolved by the exact match while the catalog
\* holds a post entry as well
ExactMatchOfMethodWitness ==
    /\ Resolved
    /\ last.args.path = <<"/", "t", "/", "1", "2">>
    /\ last.args.method = Get
    /\ { CatalogRows[5], CatalogRows[6] } \subseteq endpoints
    /\ last.ret = RetDict(CatalogRows[5])


(* ------------------------------ one transaction per tier --------------- *)
\* the statements of the call that ended last which were refused because an
\* earlier statement of the same transaction had failed
RefusedInFailedTransaction ==
    { i \in DOMAIN last.tiers : last.tiers[i].error = "InternalError" }

\* C34: every tier of search_endpoints, search_by_natural_language and
\* advanced_search runs in a session and transaction of its own: no statement
\* of a later tier is refused because the statement of an earlier tier failed.
C34_EveryTierInItsOwnTransaction ==
    (last.op \in { "search_endpoints", "search_by_natural_language", "advanced_search" })
        => RefusedInFailedTransaction = {}

\* The tiers of search_endpoints and of search_by_natural_language never meet a
\* transaction that an earlier tier left failed.
TwoSearchesUseOneSessionPerTier ==
    (last.op \in { "search_endpoints", "search_by_natural_language" })
        => RefusedInFailedTransaction = {}

\* advanced_search: the websearch statement was refused by the server, and the
\* plainto and ILIKE statements, which would have run, failed in its transaction
LaterTiersRefused ==
    /\ last.op = "advanced_search"
    /\ Len(last.tiers) = 3
    /\ last.tiers[1].error = "ProgrammingError"
    /\ last.tiers[2].error = "InternalError"
    /\ last.tiers[3].error = "InternalError"
    /\ last.err # "none"


(* ------------------------------ keywords ------------------------------- *)
\* the call that ended last is a search_by_natural_language whose ranked tiers
\* returned no rows, so that the keyword tier was reached
KeywordTierReached ==
    /\ last.op = "search_by_natural_language"
    /\ Strip(last.args.search_term) # <<>>
    /\ \A i \in RankedAttempts :
           last.tiers[i].error # "none" \/ last.tiers[i].matched = 0

\* the words of the query in lower case that are no stopwords and have at
\* least three characters
SurvivingTokens(query) ==
    SelectSeq(Split(Lower(query), " "),
              LAMBDA w : w # <<>> /\ w \notin Stopwords /\ Len(w) >= MinKeywordLen)

\* C35: the keyword tier of search_by_natural_language matches with the words
\* of the lower-cased query that are no stopwords and have at least 3
\* characters; when there is none the call returns [] and the tier runs no
\* statement; an empty or blank query returns [] before the probe and before
\* any tier.
C35_KeywordTierTokens ==
    /\ KeywordTierReached =>
          IF SurvivingTokens(last.args.search_term) = <<>>
          THEN /\ last.err = "none" /\ last.ret = RetList(<<>>)
               /\ SubstringAttempts = {}
          ELSE /\ Cardinality(SubstringAttempts) = 1
               /\ \A i \in SubstringAttempts :
                      last.tiers[i].keywords = SurvivingTokens(last.args.search_term)
    /\ (last.op = "search_by_natural_language" /\ Strip(last.args.search_term) = <<>>) =>
          /\ last.err = "none" /\ last.ret = RetList(<<>>)
          /\ last.tiers = <<>>

\* 'The TAG' was searched for without the index: the one statement of the call
\* after the probe matched with the keyword 'tag'
C35_Witness ==
    /\ KeywordTierReached
    /\ last.args.search_term = <<"T", "h", "e", " ", "T", "A", "G">>
    /\ Len(last.tiers) = 2
    /\ last.tiers[2].tier = Substring
    /\ last.tiers[2].keywords = << <<"t", "a", "g">> >>

\* 'the' was searched for with the index: both ranked statements ran and found
\* nothing, the keyword tier ran none, and the call returned []
NoKeywordLeftWitness ==
    /\ KeywordTierReached
    /\ last.args.search_term = <<"t", "h", "e">>
    /\ Len(last.tiers) = 3
    /\ SubstringAttempts = {}
    /\ last.ret = RetList(<<>>)

\* a blank query returned [] with no statement run
BlankQueryWitness ==
    /\ last.op = "search_by_natural_language"
    /\ last.args.search_term = <<" ", " ">>
    /\ last.ret = RetList(<<>>)
    /\ last.tiers = <<>>


(* ------------------------------ hydrating ------------------------------ *)
\* the call that ended last is a get_endpoint_details that returned the dict
\* of an endpoint
HydratedDict ==
    /\ last.op = "get_endpoint_details"
    /\ last.err = "none"
    /\ last.ret.kind = "dict"

\* the field is what the column gives: the object of its text when the text
\* is a JSON document, else the column as it is stored
FieldOf(field, column) ==
    IF ~column.null /\ json_loads(column.text).ok
    THEN field.form = "json" /\ field.value = json_loads(column.text).value
    ELSE /\ field.form = (IF column.null THEN "None" ELSE "str")
         /\ field.text = column.text

\* the returned body is the stored row with each of its two fields
\* deserialized or passed through on its own
BodyOf(body, row) ==
    /\ body.status_code = row.status_code
    /\ FieldOf(body.schema, row.schema)
    /\ FieldOf(body.example, row.example)

\* C36: get_endpoint_details never raises because a stored schema or example
\* is no JSON document: the schema and the example of the request body and of
\* every response body are each deserialized when they parse and passed
\* through as stored when they do not, whatever the other fields hold.
C36_HydrationPassesMalformedFieldsThrough ==
    /\ (last.op = "get_endpoint_details") => last.err \in { "none", Wrapped("OperationalError") }
    /\ (last.op = "get_endpoint_details" /\ last.err # "none") =>
           last.session = "rollback"
    /\ HydratedDict =>
        LET d == last.ret.rows[1] IN
        /\ Len(d.request_body) = (IF request_bodies = {} THEN 0 ELSE 1)
        /\ \A i \in DOMAIN d.request_body :
               \E row \in request_bodies : BodyOf(d.request_body[i], row)
        /\ Len(d.response_bodies) = Cardinality(response_bodies)
        /\ \A row \in response_bodies :
               \E i \in DOMAIN d.response_bodies : BodyOf(d.response_bodies[i], row)

\* the request body's schema '{' came back as the text it is and its example
\* '[ 7 ]' as the list [7], and the response body's example 'nul' as text next
\* to its schema '{}' as a dict
C36_Witness ==
    /\ HydratedDict
    /\ Len(last.ret.rows[1].request_body) = 1
    /\ last.ret.rows[1].request_body[1].schema = AsStored(Text(<<"{">>))
    /\ last.ret.rows[1].request_body[1].example = Parsed(JsonList(<<JsonInt(7)>>))
    /\ Len(last.ret.rows[1].response_bodies) = 1
    /\ last.ret.rows[1].response_bodies[1].schema = Parsed(JsonDict)
    /\ last.ret.rows[1].response_bodies[1].example = AsStored(Text(<<"n", "u", "l">>))


(* ------------------------------ save against delete -------------------- *)
\* caller p is between the SELECT and the flush of save_query, and the row the
\* SELECT loaded has been removed from the table since
RowRemovedSinceLookup(p) ==
    /\ pc[p] = "save_selected"
    /\ loaded[p] # {}
    /\ \A r \in loaded[p] : ById(r.id) = {}

\* the table holds a row for the key with what the save of p was given
SavedAs(rows, a) ==
    \E r \in rows :
        /\ r.path = a.path /\ r.method = a.method
        /\ r.description = a.description /\ r.params = a.params /\ r.data = a.data

\* C38: when delete_query or clear_all removes the key's row between the
\* lookup and the write of a save_query, and the storage does not fail, the
\* save completes without error and leaves a row for the key with its
\* description, params and data.
C38_SaveSurvivesConcurrentDelete ==
    [][\A p \in Procs :
          \/ (last'.err = "none" /\ SavedAs(saved_queries', args[p]))
          \/ ~(RowRemovedSinceLookup(p) /\ last'.op = "save_query"
                 /\ save_query_flush(p, "none"))]_vars

\* A save whose loaded row is still in the table when it writes, or that loaded
\* none and finds the key still free, completes and leaves its row.
UndisturbedSaveCompletes ==
    [][\A p \in Procs :
          \/ (last'.err = "none" /\ SavedAs(saved_queries', args[p]))
          \/ ~( /\ pc[p] = "save_selected"
                /\ IF loaded[p] # {} THEN \A r \in loaded[p] : ById(r.id) # {}
                   ELSE ByPathMethod(args[p].path, args[p].method) = {}
                /\ last'.op = "save_query"
                /\ save_query_flush(p, "none"))]_vars

\* a save_query ended in StaleDataError: its row was deleted while it was
\* between lookup and write
SaveFailedAfterDelete ==
    /\ last.op = "save_query"
    /\ last.err = "StaleDataError"
    /\ saved_queries = {}


(* ------------------------------ documented endpoints only -------------- *)
\* the catalog has an entry for the pair
Documented(path, method) ==
    \E r \in endpoints : RowMatches(r, path, MethodText[method])

\* a call of execute_api_call has just started: it ended before the request, or
\* it sent the request and waits
CallStarted == Len(proxied') = Len(proxied) + 1

\* the rows of saved_queries this step has created
Created == { r \in saved_queries' : \A r2 \in saved_queries : r2.id # r.id }

\* C39: execute_api_call sends its outbound request only after
\* find_endpoint_by_path_method has found an entry for the pair: a call on an
\* undocumented pair sends no request and creates no row in saved_queries.
C39_RequestOnlyForDocumentedEndpoints ==
    [][/\ CallStarted =>
            LET call == proxied'[Len(proxied')]
            IN IF Documented(call.path, call.method)
               THEN call.sent => pc'[call.task] = "request_sent"
               ELSE /\ ~call.sent
                    /\ call.outcome \in { "not_found", "raised", "error" }
                    /\ pc' = pc
                    /\ last'.op = "execute_api_call"
                    /\ Created = {}
       /\ \A r \in Created : Documented(r.path, r.method)]_vars

\* a call on '/B', which the catalog does not have, returned the warning and
\* sent nothing, after a call on '/a' had been sent and saved
C39_Witness ==
    /\ Len(proxied) = 2
    /\ proxied[1].path = <<"/", "a">> /\ proxied[1].sent /\ proxied[1].outcome = "ok"
    /\ proxied[2].path = <<"/", "B">> /\ ~proxied[2].sent /\ proxied[2].outcome = "not_found"
    /\ last.op = "execute_api_call" /\ last.ret = RetStr(NotDocumented)
    /\ \A r \in saved_queries : r.path = <<"/", "a">>
    /\ saved_queries # {}


(* ------------------------------ calls in flight together --------------- *)
\* the response says that save_query was called: it carries the id of the
\* saved row, or the note that saving failed
SaveWasCalled(ret) == ret \in { RetStr(SavedText), RetStr(NotSavedText) }

\* in this step the call with entry i of the history returns
Returns(i) ==
    /\ proxied[i].outcome = "pending"
    /\ Len(proxied') = Len(proxied)
    /\ proxied'[i].outcome # "pending"

\* C37: whatever the interleaving of execute_api_call invocations at the await
\* of the outbound request, each acts on its own lookup of the saved queries:
\* one whose lookup hit never calls save_query, and one whose lookup missed and
\* whose request succeeded calls save_query once and returns the response of
\* the API with the note of the save, not an error.
C37_EachCallActsOnItsOwnLookup ==
    [][\A i \in DOMAIN proxied :
          Returns(i) =>
              IF proxied[i].hit
              THEN ~SaveWasCalled(last'.ret)
              ELSE proxied'[i].outcome = "api_error" \/ SaveWasCalled(last'.ret)]_vars

\* A call during which no other call of the server started or waited acts on
\* its own lookup.
CallAloneActsOnItsOwnLookup ==
    [][\A i \in DOMAIN proxied :
          (Returns(i) /\ ~proxied'[i].overlapped) =>
              IF proxied[i].hit
              THEN proxied'[i].outcome = "api_error" \/ last'.ret = RetStr(FromCacheText)
              ELSE proxied'[i].outcome = "api_error" \/ SaveWasCalled(last'.ret)]_vars

\* a call that had missed and got its response returned 'Error executing API
\* call' and saved nothing: a call that hit had set the flag in between
MissAnsweredWithError ==
    /\ Len(proxied) = 2
    /\ ~proxied[1].hit /\ proxied[1].sent /\ proxied[1].outcome = "error"
    /\ proxied[2].hit /\ proxied[2].outcome = "pending"
    /\ last.op = "execute_api_call" /\ last.ret = RetStr(ErrorText)
    /\ saved_queries = { [EarlierRow EXCEPT !.usage_count = @ + 1] }

\* a call that had hit saved the query again: a call that missed had cleared
\* the flag in between
HitSavedAgain ==
    /\ Len(proxied) = 2
    /\ proxied[1].hit /\ proxied[1].outcome = "ok"
    /\ ~proxied[2].hit /\ proxied[2].outcome = "pending"
    /\ last.op = "execute_api_call" /\ last.ret = RetStr(SavedText)
====
